---- MODULE Spec2Model ----
(***************************************************************************)
(* Model of the Dual Scope lesson validator                                *)
(* (src/.scripts/english-resources-validate.py).                           *)
(*                                                                         *)
(* Text is modelled character by character: a Python str is a sequence of  *)
(* one-character strings.  TLC's strings are ASCII, so the non-ASCII       *)
(* characters the code tests for are written as one-element names: the     *)
(* arrow U+2192 is ARROW.                                                  *)
(***************************************************************************)
EXTENDS Naturals, Sequences, FiniteSets, TLC

VARIABLES
    pc,            \* main(): "args", "collected", "loop", "exit"
    argv,          \* sys.argv[1:], a sequence of file descriptions
    files,         \* main(): the list `files`
    done,          \* main(): number of files the loop has processed
    all_passed,    \* main(): all_passed
    total_issues,  \* main(): total_issues, severity -> count
    reports,       \* main(): the result of validate_file per processed file
    exit_status,   \* process exit status, "none" while running
    lessons_dir,   \* DUAL_SCOPE_DIR on disk: whether it exists, its entries
    lpc,           \* leak checks: "start", "words", "vocab", "done"
    question,      \* leak checks: the question dict under check
    section_title, \* leak checks: the enclosing section's title
    answer_words,  \* result of extract_answer_words(question answer)
    vocab_issues,  \* result of check_vocab_leaks(question, section_title)
    hint_issues,   \* result of check_hint_leaks(question, section_title)
    fpc,           \* validate_file: position in the function body
    document,      \* validate_file: the file at filepath, as the code reads it
    data,          \* validate_file: the parsed lesson data
    file_issues,   \* validate_file: the list `issues`
    local,         \* the list `issues` local to the running per-question check
    pos,           \* validate_file: <<section index, question index>> of the loops
    returned,      \* validate_file: the returned tuple
    xpc,           \* extraction: "start", "text", "done"
    html_content,  \* extraction: the text of the HTML file
    raw,           \* extract_grammar_data_text(html_content), <<>> for None
    js_obj,        \* upload-answers.py extract_grammar_data: js_obj of line 77
    npc,           \* js_to_json: "start", "done"
    js_text,       \* js_to_json: the argument
    json_text,     \* js_to_json: the returned text
    upc,           \* upload-answers.py main(): "start", "lesson", "upload", "done"
    dry_run,       \* upload-answers.py main(): '--dry-run' in sys.argv
    lesson_index,  \* upload-answers.py main(): index in LESSONS of the loop
    extracted,     \* upload-answers.py main(): data of the lesson in hand
    remote,        \* the Firebase store: exam id -> uploaded data
    requests,      \* number of HTTP requests sent so far
    uploads,       \* value of upload_to_firebase per lesson that reached it
    gpc,           \* scan_and_generate: "load", "generate", "check", "done"
    data_json,     \* data.json on disk
    settings,      \* scan_and_generate: settings
    run,           \* number of the scan_and_generate run under way
    writes         \* writes to data.json per run

vars == <<pc, argv, files, done, all_passed, total_issues, reports,
          exit_status, lessons_dir, lpc, question, section_title, answer_words,
          vocab_issues, hint_issues, fpc, document, data, file_issues, local, pos,
          returned, xpc, html_content, raw, js_obj, npc, js_text, json_text,
          upc, dry_run, lesson_index, extracted, remote, requests, uploads,
          gpc, data_json, settings, run, writes>>
mainVars == <<pc, argv, files, done, all_passed, total_issues, reports,
              exit_status, lessons_dir>>
leakVars == <<lpc, question, section_title, answer_words, vocab_issues,
              hint_issues>>
fileVars == <<fpc, document, data, file_issues, local, pos, returned>>
extractVars == <<xpc, html_content, raw, js_obj>>
jsonVars == <<npc, js_text, json_text>>
uploadVars == <<upc, dry_run, lesson_index, extracted, remote, requests, uploads>>
genVars == <<gpc, data_json, settings, run, writes>>
toolVars == <<jsonVars, uploadVars, genVars>>

(***************************************************************************)
(* Characters and the str / re primitives the validator uses.              *)
(***************************************************************************)
ARROW == "->"

UpperSeq == <<"A","B","C","D","E","F","G","H","I","J","K","L","M",
              "N","O","P","Q","R","S","T","U","V","W","X","Y","Z">>
LowerSeq == <<"a","b","c","d","e","f","g","h","i","j","k","l","m",
              "n","o","p","q","r","s","t","u","v","w","x","y","z">>
Digits == {"0","1","2","3","4","5","6","7","8","9"}

Range(s) == {s[i] : i \in DOMAIN s}

\* \s of re and the whitespace of str.strip() / str.split()
IsSpace(c) == c \in {" ", "\t", "\n"}

\* \w of re
IsWordChar(c) == c \in Range(UpperSeq) \cup Range(LowerSeq) \cup Digits \cup {"_"}

LowerChar(c) ==
    IF c \in Range(UpperSeq)
    THEN LowerSeq[CHOOSE i \in DOMAIN UpperSeq : UpperSeq[i] = c]
    ELSE c

\* str.lower()
Lower(s) == [i \in 1..Len(s) |-> LowerChar(s[i])]

RECURSIVE LStrip(_)
LStrip(s) == IF s # <<>> /\ IsSpace(Head(s)) THEN LStrip(Tail(s)) ELSE s

RECURSIVE RStrip(_)
RStrip(s) ==
    IF s # <<>> /\ IsSpace(s[Len(s)])
    THEN RStrip(SubSeq(s, 1, Len(s) - 1))
    ELSE s

\* str.strip()
Strip(s) == RStrip(LStrip(s))

\* str.split(): the maximal runs of non-whitespace characters, in order
RECURSIVE SplitWS(_)
SplitWS(s) ==
    LET t == LStrip(s) IN
    IF t = <<>> THEN <<>>
    ELSE LET n == IF \E i \in 1..Len(t) : IsSpace(t[i])
                  THEN (CHOOSE i \in 1..Len(t) :
                            /\ IsSpace(t[i])
                            /\ \A j \in 1..(i - 1) : ~IsSpace(t[j])) - 1
                  ELSE Len(t)
         IN <<SubSeq(t, 1, n)>> \o SplitWS(SubSeq(t, n + 1, Len(t)))

\* str.split(sep) for a one-character sep: empty pieces are kept
RECURSIVE SplitOn(_, _)
SplitOn(s, sep) ==
    IF \E i \in 1..Len(s) : s[i] = sep
    THEN LET n == CHOOSE i \in 1..Len(s) :
                      /\ s[i] = sep
                      /\ \A j \in 1..(i - 1) : s[j] # sep
         IN <<SubSeq(s, 1, n - 1)>> \o SplitOn(SubSeq(s, n + 1, Len(s)), sep)
    ELSE <<s>>

\* `sub in s` for two str
Contains(sub, s) ==
    \E i \in 0..(Len(s) - Len(sub)) : SubSeq(s, i + 1, i + Len(sub)) = sub

\* `x in xs` for a list
InList(x, xs) == \E i \in DOMAIN xs : xs[i] = x

\* \b of re at offset p of s (between s[p] and s[p+1])
WordBoundary(s, p) ==
    (p >= 1 /\ IsWordChar(s[p])) # (p < Len(s) /\ IsWordChar(s[p + 1]))

\* re.search(r'\b' + re.escape(w) + r'\b', s) is not None
WordSearch(w, s) ==
    \E i \in 0..(Len(s) - Len(w)) :
        /\ SubSeq(s, i + 1, i + Len(w)) = w
        /\ WordBoundary(s, i)
        /\ WordBoundary(s, i + Len(w))

\* re.sub(r'^[a-d]\.\s*', '', s)
StripChoicePrefix(s) ==
    IF Len(s) >= 2 /\ s[1] \in {"a", "b", "c", "d"} /\ s[2] = "."
    THEN LStrip(SubSeq(s, 3, Len(s)))
    ELSE s

\* re.sub(r'[^\w\s]', '', s)
StripPunct(s) == SelectSeq(s, LAMBDA c : IsWordChar(c) \/ IsSpace(c))

\* dict.get(key, default)
Get(d, key, default) == IF key \in DOMAIN d THEN d[key] ELSE default

\* a test for None in place of `not x`: no str or list is None
Falsy_is_none(x) == FALSE

\* Python truthiness of a str or list: `not x` is Falsy(x)
Falsy(x) == x = <<>>

Min(a, b) == IF a <= b THEN a ELSE b

\* s[:n]
Prefix(s, n) == SubSeq(s, 1, Min(n, Len(s)))

(***************************************************************************)
(* english-resources-validate.py: the answer classification and the        *)
(* stoplist.                                                               *)
(***************************************************************************)
\* is_sentence_answer with `word_count > 4`
is_sentence_answer_over4(answer_str) ==
    LET clean == StripChoicePrefix(Strip(answer_str))
        word_count == Len(SplitWS(clean))
    IN word_count > 4

is_sentence_answer(answer_str) ==
    LET clean == StripChoicePrefix(Strip(answer_str))
        word_count == Len(SplitWS(clean))
    IN word_count >= 4

COMMON_WORDS == {
    <<"a">>, <<"a","n">>, <<"t","h","e">>, <<"i","s">>, <<"a","r","e">>,
    <<"w","a","s">>, <<"w","e","r","e">>, <<"b","e">>, <<"b","e","e","n">>,
    <<"b","e","i","n","g">>, <<"h","a","v","e">>, <<"h","a","s">>,
    <<"h","a","d">>, <<"d","o">>, <<"d","o","e","s">>, <<"d","i","d">>,
    <<"w","i","l","l">>, <<"w","o","u","l","d">>, <<"c","a","n">>,
    <<"c","o","u","l","d">>, <<"s","h","o","u","l","d">>, <<"m","a","y">>,
    <<"m","i","g","h","t">>, <<"s","h","a","l","l">>, <<"m","u","s","t">>,
    <<"t","o">>, <<"o","f">>, <<"i","n">>, <<"o","n">>, <<"a","t">>,
    <<"b","y">>, <<"f","o","r">>, <<"w","i","t","h">>, <<"f","r","o","m">>,
    <<"a","s">>, <<"i","t">>, <<"i","t","s">>, <<"t","h","a","t">>,
    <<"t","h","i","s">>, <<"n","o","t">>, <<"n","o">>, <<"s","o">>,
    <<"i","f">>, <<"o","r">>, <<"a","n","d">>, <<"b","u","t">>, <<"i">>,
    <<"h","e">>, <<"s","h","e">>, <<"w","e">>, <<"t","h","e","y">>,
    <<"y","o","u">>, <<"m","e">>, <<"h","i","m">>, <<"h","e","r">>,
    <<"u","s">>, <<"t","h","e","m">>, <<"m","y">>, <<"h","i","s">>,
    <<"o","u","r">>, <<"y","o","u","r">>, <<"t","h","e","i","r">>
}

\* [w.strip().lower() for w in s.split(',') if w.strip()]
RECURSIVE StrippedLower(_)
StrippedLower(ws) ==
    IF ws = <<>> THEN <<>>
    ELSE IF Falsy(Strip(Head(ws))) THEN StrippedLower(Tail(ws))
    ELSE <<Lower(Strip(Head(ws)))>> \o StrippedLower(Tail(ws))

CommaWords(s) == StrippedLower(SplitOn(s, ","))

\* F(1) \o F(2) \o ... \o F(n): the appends of a for loop, in order
RECURSIVE ConcatIdx(_, _)
ConcatIdx(F(_), n) == IF n = 0 THEN <<>> ELSE ConcatIdx(F, n - 1) \o F(n)

\* extract_answer_words taking the text left of the first arrow
extract_answer_words_first(answer_str) ==
    LET stripped == StripChoicePrefix(Strip(answer_str))
        pieces == SplitOn(stripped, ARROW)
        answer == IF ARROW \in Range(stripped)
                  THEN Strip(pieces[1])
                  ELSE stripped
        words == CommaWords(answer)
        full == Strip(Lower(answer))
    IN IF is_sentence_answer(answer) THEN <<Strip(Lower(answer))>>
       ELSE IF ~Falsy(full) /\ ~InList(full, words)
            THEN Append(words, full)
            ELSE words

extract_answer_words(answer_str) ==
    LET stripped == StripChoicePrefix(Strip(answer_str))
        pieces == SplitOn(stripped, ARROW)
        answer == IF ARROW \in Range(stripped)
                  THEN Strip(pieces[Len(pieces)])
                  ELSE stripped
        words == CommaWords(answer)
        full == Strip(Lower(answer))
    IN IF is_sentence_answer(answer) THEN <<Strip(Lower(answer))>>
       ELSE IF ~Falsy(full) /\ ~InList(full, words)
            THEN Append(words, full)
            ELSE words

(***************************************************************************)
(* Findings.  A finding is the dict the checks append; its detail text is  *)
(* kept as the message and the values formatted into it.                   *)
(***************************************************************************)
Detail(msg, n, word, aw, quote) ==
    [msg |-> msg, n |-> n, word |-> word, aw |-> aw, quote |-> quote,
     missing |-> {}, extra |-> {}]

Issue(type, severity, num, section, detail) ==
    [type |-> type, severity |-> severity, question |-> num,
     section |-> section, detail |-> detail]

\* function_words holding stoplisted words only
function_words_stoplisted_only == {
    <<"s","o">>, <<"n","o","t">>, <<"n","o">>, <<"i","n">>, <<"b","y">>,
    <<"a","s">>, <<"o","f">>, <<"t","h","a","t">>
}

function_words == {
    <<"s","o">>, <<"n","o","t">>, <<"n","o">>, <<"i","n">>, <<"b","y">>,
    <<"a","s">>, <<"o","f">>, <<"s","u","c","h">>, <<"b","o","t","h">>,
    <<"e","i","t","h","e","r">>, <<"n","e","i","t","h","e","r">>,
    <<"n","o","r">>, <<"w","h","e","t","h","e","r">>,
    <<"u","n","t","i","l">>, <<"u","n","l","e","s","s">>,
    <<"o","n","c","e">>, <<"t","h","a","t">>
}

\* vocab_word_plain of one vocab entry
vocab_word_plain(entry) == Strip(StripPunct(Lower(entry.items[1])))

\* has_function_word of a punctuation-stripped vocabulary phrase, a variant
\* that takes every phrase for a grammar pattern
has_function_word_always(plain) == TRUE

\* has_function_word of a punctuation-stripped vocabulary phrase
has_function_word(plain) ==
    LET phrase_words == Range(SplitWS(plain))
    IN phrase_words \cap function_words # {}

\* the sentence-answer test with the operands of `in` exchanged
sentence_pair_leak_swapped(plain, aw) ==
    has_function_word(plain) /\ Contains(aw, plain)

\* `has_function_word and vocab_word_plain in aw`
sentence_pair_leak(plain, aw) ==
    has_function_word(plain) /\ Contains(plain, aw)

\* the short-answer tests as two independent `if`s
short_pair_msgs_both(aw, vocab_word, plain) ==
    (IF WordSearch(aw, vocab_word) THEN <<"contains answer">> ELSE <<>>)
        \o (IF WordSearch(plain, aw) THEN <<"matches answer">> ELSE <<>>)

\* the short-answer tests without the `elif` branch
short_pair_msgs_one_way(aw, vocab_word, plain) ==
    IF WordSearch(aw, vocab_word) THEN <<"contains answer">> ELSE <<>>

\* the `if ... elif ...` of the short-answer branch: the finding's message
short_pair_msgs(aw, vocab_word, plain) ==
    IF WordSearch(aw, vocab_word) THEN <<"contains answer">>
    ELSE IF WordSearch(plain, aw) THEN <<"matches answer">>
    ELSE <<>>

\* the body of `for aw in answer_words` for one entry and one answer word
vocab_pair_issues(entry, aw, sentence_answer, num, section) ==
    LET vocab_word == Lower(entry.items[1])
        plain == vocab_word_plain(entry)
        msgs == short_pair_msgs(aw, vocab_word, plain)
    IN IF Falsy(aw) THEN <<>>
       ELSE IF sentence_answer
       THEN IF Len(SplitWS(plain)) < 2 THEN <<>>
            ELSE IF sentence_pair_leak(plain, aw)
            THEN <<Issue("vocab_leak", "HIGH", num, section,
                         Detail("teaches grammar pattern from answer", 0,
                                entry.items[1], <<>>, <<>>))>>
            ELSE <<>>
       ELSE IF aw \in COMMON_WORDS THEN <<>>
       ELSE [k \in 1..Len(msgs) |->
                Issue("vocab_leak", "HIGH", num, section,
                      Detail(msgs[k], 0, entry.items[1], aw, <<>>))]

\* the stoplist test applied to the vocabulary word with its punctuation
vocab_entry_issues_raw(entry, words, sentence_answer, num, section) ==
    IF ~entry.list \/ Len(entry.items) < 2 THEN <<>>
    ELSE IF Lower(entry.items[1]) \in COMMON_WORDS THEN <<>>
    ELSE ConcatIdx(LAMBDA j : vocab_pair_issues(entry, words[j],
                                                sentence_answer, num, section),
                   Len(words))

\* the body of `for entry in vocab` for one entry
vocab_entry_issues(entry, words, sentence_answer, num, section) ==
    IF ~entry.list \/ Len(entry.items) < 2 THEN <<>>
    ELSE IF vocab_word_plain(entry) \in COMMON_WORDS THEN <<>>
    ELSE ConcatIdx(LAMBDA j : vocab_pair_issues(entry, words[j],
                                                sentence_answer, num, section),
                   Len(words))

check_vocab_leaks(q, section) ==
    LET answer == Get(q, "answer", <<>>)
        vocab == Get(q, "vocab", <<>>)
        num == Get(q, "num", <<"?">>)
        sentence_answer == is_sentence_answer(answer)
        words == extract_answer_words(answer)
    IN IF Falsy(answer) \/ Falsy(vocab) THEN <<>>
       ELSE ConcatIdx(LAMBDA i : vocab_entry_issues(vocab[i], words,
                                                    sentence_answer, num, section),
                      Len(vocab))

HintQuoteLen == 60

\* the body of `for aw in answer_parts` for hint number i (0-based) and aw
hint_pair_issues(i, hint, aw, num, section) ==
    LET hint_lower == Lower(hint) IN
    IF Falsy(aw) \/ aw \in COMMON_WORDS THEN <<>>
    ELSE IF " " \in Range(aw)
    THEN IF Contains(aw, hint_lower)
         THEN <<Issue("hint_leak", "HIGH", num, section,
                      Detail("states answer", i + 1, <<>>, aw,
                             Prefix(hint, HintQuoteLen)))>>
         ELSE <<>>
    ELSE IF WordSearch(aw, hint_lower)
         THEN <<Issue("hint_leak", "HIGH", num, section,
                      Detail("contains answer", i + 1, <<>>, aw,
                             Prefix(hint, HintQuoteLen)))>>
         ELSE <<>>

\* answer_parts of check_hint_leaks
hint_answer_parts(answer) ==
    LET clean_answer == StripChoicePrefix(Strip(answer))
        parts == CommaWords(clean_answer)
        full_answer == Strip(Lower(clean_answer))
    IN IF ~InList(full_answer, parts) THEN Append(parts, full_answer) ELSE parts

check_hint_leaks(q, section) ==
    LET answer == Get(q, "answer", <<>>)
        hints == Get(q, "hint", <<>>)
        num == Get(q, "num", <<"?">>)
        answer_parts == hint_answer_parts(answer)
    IN IF Falsy(answer) \/ Falsy(hints) THEN <<>>
       ELSE IF is_sentence_answer(answer) THEN <<>>
       ELSE ConcatIdx(LAMBDA i :
                ConcatIdx(LAMBDA j : hint_pair_issues(i - 1, hints[i],
                                                      answer_parts[j], num, section),
                          Len(answer_parts)),
                Len(hints))

\* the section-title markers of check_required_fields
TranslationOptionalKeywords == {
    <<"U+4E26", "U+3079", "U+304B", "U+3048">>,
    <<"U+82F1", "U+4F5C", "U+6587">>,
    <<"U+7A7A", "U+6240", "U+88DC", "U+5145">>
}

required_fields == <<"text", "answer", "translation">>

\* the finding for one required field, before the demotion pass
missing_field_issue(q, field, num, section) ==
    IF field \notin DOMAIN q \/ Falsy(q[field]) \/ Falsy(Strip(q[field]))
    THEN <<Issue("missing_field", "MEDIUM", num, section,
                 Detail(field, 0, <<>>, <<>>, <<>>))>>
    ELSE <<>>

\* the demotion applied to every missing_field finding, whatever its field
Demote_any_field(issue) ==
    IF issue.type = "missing_field"
    THEN [issue EXCEPT !.severity = "LOW"]
    ELSE issue

\* `issue["severity"] = "LOW"` for a missing translation
Demote(issue) ==
    IF issue.type = "missing_field" /\ issue.detail.msg = "translation"
    THEN [issue EXCEPT !.severity = "LOW"]
    ELSE issue

\* the findings check_required_fields has appended when it reaches line 298
required_fields_created(q, section) ==
    LET num == Get(q, "num", <<"?">>)
        missing == ConcatIdx(LAMBDA k : missing_field_issue(q, required_fields[k],
                                                            num, section),
                             Len(required_fields))
    IN IF Falsy(Get(q, "vocab", <<>>)) /\ Falsy(Get(q, "hint", <<>>))
       THEN Append(missing,
                   Issue("no_pedagogy", "LOW", num, section,
                         Detail("No vocab AND no hints", 0, <<>>, <<>>, <<>>)))
       ELSE missing

\* lines 305-308: the pass over the findings already appended
demote_pass(found, section) ==
    IF \E kw \in TranslationOptionalKeywords : Contains(kw, Lower(section))
    THEN [k \in 1..Len(found) |-> Demote(found[k])]
    ELSE found

check_required_fields(q, section) ==
    demote_pass(required_fields_created(q, section), section)

\* check_hint_count testing `len(hints) < 3` in place of `!= 3`
check_hint_count_under3(q, section) ==
    LET hints == Get(q, "hint", <<>>)
        num == Get(q, "num", <<"?">>)
    IN IF ~Falsy(hints) /\ Len(hints) < 3
       THEN <<Issue("hint_count", "LOW", num, section,
                    Detail("Expected 3 hints, found", Len(hints),
                           <<>>, <<>>, <<>>))>>
       ELSE <<>>

check_hint_count(q, section) ==
    LET hints == Get(q, "hint", <<>>)
        num == Get(q, "num", <<"?">>)
    IN IF ~Falsy(hints) /\ Len(hints) # 3
       THEN <<Issue("hint_count", "LOW", num, section,
                    Detail("Expected 3 hints, found", Len(hints),
                           <<>>, <<>>, <<>>))>>
       ELSE <<>>

(***************************************************************************)
(* Inputs: the answers, vocabulary entries and hints the checks are run on. *)
(***************************************************************************)
MaxTok == 4

W_go == <<"g","o">>
W_so == <<"s","o">>
W_goc == <<"g","o",",">>
W_arrow == <<ARROW>>
AnswerTokens == {W_go, W_so, W_goc, W_arrow}

\* " ".join(tokens)
RECURSIVE Join(_)
Join(ts) ==
    IF ts = <<>> THEN <<>>
    ELSE IF Len(ts) = 1 THEN ts[1]
    ELSE ts[1] \o <<" ">> \o Join(Tail(ts))

\* every answer of at most MaxTok tokens
TokenAnswers ==
    {Join(ts) : ts \in UNION {[1..n -> AnswerTokens] : n \in 0..MaxTok}}

\* answers beyond the token grammar: the spec's scenarios, case, whitespace, prefixes
ExtraAnswers == {
    \* 'b. honest'
    <<"b","."," ","h","o","n","e","s","t">>,
    \* 'I think that honesty is important because...'
    <<"I"," ","t","h","i","n","k"," ","t","h","a","t"," ","h","o","n","e","s",
      "t","y"," ","i","s"," ","i","m","p","o","r","t","a","n","t"," ","b","e",
      "c","a","u","s","e",".",".",".">>,
    \* 'I study so that I can win'
    <<"I"," ","s","t","u","d","y"," ","s","o"," ","t","h","a","t"," ","I"," ",
      "c","a","n"," ","w","i","n">>,
    \* ' \tGo  So\n'
    <<" ","\t","G","o"," "," ","S","o","\n">>,
    \* 'b.go'
    <<"b",".","g","o">>,
    \* 'a. b. go, so go'
    <<"a","."," ","b","."," ","g","o",","," ","s","o"," ","g","o">>,
    \* 'it is no go here'
    <<"i","t"," ","i","s"," ","n","o"," ","g","o"," ","h","e","r","e">>,
    \* 'it is such go here'
    <<"i","t"," ","i","s"," ","s","u","c","h"," ","g","o"," ","h","e","r","e">>,
    \* 'go-go'
    <<"g","o","-","g","o">>,
    \* ' '
    <<" ">>,
    \* 'GO, so'
    <<"G","O",","," ","s","o">>,
    \* 'go→honest'
    <<"g","o",ARROW,"h","o","n","e","s","t">>,
    \* 'honest, go'
    <<"h","o","n","e","s","t",","," ","g","o">>,
    \* 'go → a. so, go so go'
    <<"g","o"," ",ARROW," ","a","."," ","s","o",","," ","g","o"," ","s","o",
      " ","g","o">>
}

PrefixedAnswers ==
    {<<"b", ".", " ">> \o a : a \in TokenAnswers \cup ExtraAnswers}

AnswerSet == TokenAnswers \cup ExtraAnswers \cup PrefixedAnswers

\* head words of vocabulary entries
VocabWords == {
    \* 'go'
    <<"g","o">>,
    \* 'So.'
    <<"S","o",".">>,
    \* 'so go'
    <<"s","o"," ","g","o">>,
    \* 'go go'
    <<"g","o"," ","g","o">>,
    \* 'no go'
    <<"n","o"," ","g","o">>,
    \* 'such go'
    <<"s","u","c","h"," ","g","o">>,
    \* 'go-go'
    <<"g","o","-","g","o">>,
    \* '~'
    <<"~">>,
    \* 'honest'
    <<"h","o","n","e","s","t">>,
    \* 'so that'
    <<"s","o"," ","t","h","a","t">>,
    \* 'so ~ go'
    <<"s","o"," ","~"," ","g","o">>,
    \* 'the'
    <<"t","h","e">>
}

\* the definition half of a vocabulary pair (not read by any check)
VocabDef == <<"U+8A9E">>
Entry(w) == [list |-> TRUE, items |-> <<w, VocabDef>>]

VocabLists ==
    {<<Entry(w)>> : w \in VocabWords}
    \cup {<<[list |-> FALSE, items |-> <<>>]>>,
          <<[list |-> TRUE, items |-> <<W_go>>]>>,
          <<Entry(W_go), Entry(<<"S","o",".">>)>>,
          <<Entry(<<"s","o"," ","g","o">>), Entry(W_go)>>,
          <<Entry(W_go), Entry(W_go)>>,
          <<Entry(<<"t","h","e">>), Entry(<<"g","o","-","g","o">>)>>}

\* hint strings; one is longer than 60 characters
HintWords == {
    \* 'go'
    <<"g","o">>,
    \* 'Gone'
    <<"G","o","n","e">>,
    \* 'so go now'
    <<"s","o"," ","g","o"," ","n","o","w">>,
    \* 'Use GO here'
    <<"U","s","e"," ","G","O"," ","h","e","r","e">>,
    \* 'think'
    <<"t","h","i","n","k">>,
    \* 'xxxxxxxxxxxxxxxxxxxxxxxxxxxxxxxxxxxxxxxxxxxxxxxxxxxxxxxxxx go yyy'
    <<"x","x","x","x","x","x","x","x","x","x","x","x","x","x","x","x","x","x",
      "x","x","x","x","x","x","x","x","x","x","x","x","x","x","x","x","x","x",
      "x","x","x","x","x","x","x","x","x","x","x","x","x","x","x","x","x","x",
      "x","x","x","x"," ","g","o"," ","y","y","y">>,
    \* 'honest'
    <<"h","o","n","e","s","t">>
}

H_go == <<"g","o">>
H_think == <<"t","h","i","n","k">>
HintLists ==
    {<<h>> : h \in HintWords}
    \cup {<<H_think, H_go, H_think>>,
          <<H_go, H_go>>,
          <<H_think, <<"s","o"," ","g","o"," ","n","o","w">>, <<"G","o","n","e">>, H_go>>}

NUM == <<"1">>

\* the question under check is drawn from these shapes: any two of answer,
\* vocab and hint present, with and without a num field
QuestionSet ==
    \/ \E a \in AnswerSet, v \in VocabLists :
           question = [num |-> NUM, answer |-> a, vocab |-> v]
    \/ \E a \in AnswerSet, h \in HintLists :
           question = [num |-> NUM, answer |-> a, hint |-> h]
    \/ \E v \in VocabLists, h \in HintLists :
           question = [num |-> NUM, vocab |-> v, hint |-> h]
    \/ \E v \in VocabLists, h \in HintLists :
           question = [answer |-> <<>>, vocab |-> v, hint |-> h]
    \/ \E a \in ExtraAnswers :
           question = [answer |-> a, vocab |-> <<Entry(W_go)>>, hint |-> <<H_go>>]
    \/ \E a \in ExtraAnswers :
           question = [num |-> NUM, answer |-> a]

SectionTitle == <<"S","1">>

(***************************************************************************)
(* Lesson files of the model.                                              *)
(***************************************************************************)
MaxFiles == 2

MAX_HTML_SIZE == 200 * 1024

W_honest == <<"h","o","n","e","s","t">>
B_honest == <<"b","."," ","h","o","n","e","s","t">>
Q_clean ==
    [num |-> NUM, text |-> <<"H","e"," ","i","s"," ","("," ",")",".">>, answer |-> B_honest, translation |-> <<"U+5F7C","U+306F","U+6B63","U+76F4","U+3060">>,
     vocab |-> <<Entry(W_go)>>, hint |-> <<H_think, H_think, H_think>>]
\* two hints: one LOW hint_count finding and nothing else
Q_low == [Q_clean EXCEPT !.hint = <<H_think, H_think>>]
\* the vocabulary gives the answer away: one HIGH vocab_leak finding
Q_leak == [Q_clean EXCEPT !.vocab = <<Entry(W_honest)>>]
\* no translation, no vocab, no hints
Q_bare == [num |-> NUM, text |-> <<"H","e"," ","i","s"," ","("," ",")",".">>, answer |-> B_honest]

Title_plain == <<"U+8A9E","U+53E5","U+9078","U+629E">>
Title_reorder == <<"U+4E26","U+3079","U+304B","U+3048">>

\* the text after "categoryMap:" in a document, and a document without one
Declared(text) == [declared |-> TRUE, text |-> text]
Undeclared == [declared |-> FALSE, text |-> <<>>]

\* categoryMap:{ all: [0] }
M_0 == Declared(<<"{"," ","a","l","l",":"," ","[","0","]"," ","}">>)
\* categoryMap:{ all: [1] }
M_1 == Declared(<<"{"," ","a","l","l",":"," ","[","1","]"," ","}">>)
\* categoryMap:{ all: [0, 2] }
M_02 == Declared(<<"{"," ","a","l","l",":"," ","[","0",","," ","2","]"," ","}">>)

CategoryMaps ==
    {Undeclared, M_0, M_1, M_02,
     \* categoryMap: { all: [0, 1] }
     Declared(<<" ","{"," ","a","l","l",":"," ","[","0",","," ","1","]"," ","}">>),
     \* categoryMap:{ a: [0], b: [1] }
     Declared(<<"{"," ","a",":"," ","[","0","]",","," ","b",":"," ","[","1","]"," ","}">>),
     \* categoryMap:{all:[0,1,2]}
     Declared(<<"{","a","l","l",":","[","0",",","1",",","2","]","}">>),
     \* categoryMap:{}
     Declared(<<"{","}">>),
     \* categoryMap:{ }
     Declared(<<"{"," ","}">>),
     \* categoryMap:{ type1: [0] }
     Declared(<<"{"," ","t","y","p","e","1",":"," ","[","0","]"," ","}">>),
     \* categoryMap:{ a: { x: [0] }, b: [1] }
     Declared(<<"{"," ","a",":"," ","{"," ","x",":"," ","[","0","]"," ","}",","," ",
                "b",":"," ","[","1","]"," ","}">>),
     \* categoryMap:\n{ all: [0, 10] }
     Declared(<<"\n","{"," ","a","l","l",":"," ","[","0",","," ","1","0","]"," ","}">>)}

Parsed(sections, map) ==
    [grammarData |-> "parsed", data |-> [sections |-> sections], categoryMap |-> map]
Unparsed(kind) ==
    [grammarData |-> kind, data |-> [sections |-> <<>>], categoryMap |-> Undeclared]
OneSection(q) == <<[title |-> Title_plain, questions |-> <<q>>]>>

LessonFile(lesson, readable, size, content) ==
    [lesson |-> lesson, readable |-> readable, size |-> size, content |-> content]

SmallSize == 4 * 1024

\* the files on disk, by path: path n is the n-th file name in sorted order;
\* lesson says whether the name has the form Lesson*.html
Disk == <<
    LessonFile(TRUE, TRUE, SmallSize, Parsed(OneSection(Q_clean), M_0)),
    LessonFile(TRUE, TRUE, SmallSize, Parsed(OneSection(Q_low), Undeclared)),
    LessonFile(TRUE, TRUE, SmallSize, Parsed(OneSection(Q_leak), M_0)),
    LessonFile(TRUE, TRUE, SmallSize, Unparsed("absent")),
    LessonFile(TRUE, TRUE, MAX_HTML_SIZE + 1, Unparsed("unparseable")),
    LessonFile(TRUE, TRUE, SmallSize, Parsed(<<>>, M_0)),
    LessonFile(TRUE, TRUE, MAX_HTML_SIZE + 1,
               Parsed(OneSection(Q_clean), M_0)),
    LessonFile(TRUE, TRUE, MAX_HTML_SIZE,
               Parsed(<<[title |-> Title_reorder, questions |-> <<Q_clean, Q_bare>>],
                        [questions |-> <<Q_clean>>]>>, M_02)),
    LessonFile(TRUE, FALSE, SmallSize, Parsed(OneSection(Q_clean), M_0)),
    LessonFile(FALSE, TRUE, SmallSize, Parsed(OneSection(Q_leak), M_0))
>>

\* a path given on the command line that is not a file
MissingPath == 0

Paths == DOMAIN Disk \cup {MissingPath}

\* a test that takes every path for a file
isfile_any(path) == TRUE

\* os.path.isfile(path)
isfile(path) == path \in DOMAIN Disk

SeqsUpTo(S, n) == UNION {[1..k -> S] : k \in 0..n}

\* sorted(names) for a set of paths
RECURSIVE Sorted(_)
Sorted(S) ==
    IF S = {} THEN <<>>
    ELSE LET first == CHOOSE f \in S : \A g \in S : f <= g
         IN <<first>> \o Sorted(S \ {first})


(***************************************************************************)
(* english-resources-validate.py: validate_file, print_report.             *)
(*                                                                         *)
(* A lesson file is described by what validate_file reads of it: whether   *)
(* it can be opened, its size in bytes, the outcome of parse_grammar_data  *)
(* on its text, and the text that follows its categoryMap declaration.      *)
(***************************************************************************)
DASH == <<"-">>

\* parse_grammar_data(content): <<data, error>>, error = "" for None
parse_grammar_data(content) ==
    IF content.grammarData = "absent"
    THEN <<[sections |-> <<>>], "Could not find grammarData block">>
    ELSE IF content.grammarData = "unparseable"
    THEN <<[sections |-> <<>>], "JSON parse error">>
    ELSE <<content.data, "">>

\* int(idx_match.group()) for a run of digits
RECURSIVE ToInt(_)
ToInt(ds) ==
    LET DigitSeq == <<"0","1","2","3","4","5","6","7","8","9">>
    IN IF ds = <<>> THEN 0
       ELSE 10 * ToInt(SubSeq(ds, 1, Len(ds) - 1))
            + (CHOOSE d \in 0..9 : DigitSeq[d + 1] = ds[Len(ds)])

\* {int(m.group()) for m in re.finditer(r'\d+', s)}: the maximal digit runs of s
DigitRuns(s) ==
    {ToInt(SubSeq(s, i, j)) :
        <<i, j>> \in {<<a, b>> \in (1..Len(s)) \X (1..Len(s)) :
            /\ a <= b
            /\ \A k \in a..b : s[k] \in Digits
            /\ (a = 1 \/ s[a - 1] \notin Digits)
            /\ (b = Len(s) \/ s[b + 1] \notin Digits)}}

\* group(1) of re.search(r'categoryMap:\s*\{([^}]+)\}', content), where text is
\* what follows "categoryMap:" in the document; <<>> when there is no match
\* (a match always has a non-empty group)
cat_text(text) ==
    LET body == LStrip(text)
        closes == {i \in 2..Len(body) : body[i] = "}"}
    IN IF body = <<>> \/ body[1] # "{" \/ closes = {} THEN <<>>
       ELSE SubSeq(body, 2, (CHOOSE c \in closes : \A d \in closes : c <= d) - 1)

\* the categoryMap finding of validate_file, as a list of zero or one issue
category_map_issues(content, sections) ==
    LET cat_match == IF content.categoryMap.declared
                     THEN cat_text(content.categoryMap.text) ELSE <<>>
        referenced == DigitRuns(cat_match)
        expected == 0..(Len(sections) - 1)
        missing == expected \ referenced
        extra == referenced \ expected
    IN IF cat_match # <<>> /\ referenced # expected
       THEN <<Issue("categoryMap_mismatch", "HIGH", DASH, DASH,
                    [Detail("categoryMap", 0, <<>>, <<>>, <<>>)
                         EXCEPT !.missing = missing, !.extra = extra])>>
       ELSE <<>>

\* the four per-question checks of validate_file, in call order
question_issues(q, title) ==
    check_vocab_leaks(q, title) \o check_hint_leaks(q, title)
        \o check_required_fields(q, title) \o check_hint_count(q, title)

UnknownSection ==
    <<"U","n","k","n","o","w","n"," ","s","e","c","t","i","o","n">>

section_issues(section) ==
    LET title == Get(section, "title", UnknownSection)
        questions == Get(section, "questions", <<>>)
    IN ConcatIdx(LAMBDA k : question_issues(questions[k], title), Len(questions))

RECURSIVE SumLen(_, _)
SumLen(sections, n) ==
    IF n = 0 THEN 0
    ELSE SumLen(sections, n - 1) + Len(Get(sections[n], "questions", <<>>))

\* open(filepath) or f.read() raises: validate_file returns nothing
validate_file_raises(filepath) == ~Disk[filepath].readable

\* size_kb of the report: size // 1024
size_kb(size) == size \div 1024

\* the size check testing `size >= MAX_HTML_SIZE`
file_size_issues_at_limit(size) ==
    IF size >= MAX_HTML_SIZE
    THEN <<Issue("file_size", "MEDIUM", DASH, DASH,
                 Detail("file_size", size_kb(size), <<>>, <<>>, <<>>))>>
    ELSE <<>>

file_size_issues(size) ==
    IF size > MAX_HTML_SIZE
    THEN <<Issue("file_size", "MEDIUM", DASH, DASH,
                 Detail("file_size", size_kb(size), <<>>, <<>>, <<>>))>>
    ELSE <<>>

parse_error_issue(error) ==
    Issue("parse_error", "HIGH", DASH, DASH, Detail(error, 0, <<>>, <<>>, <<>>))

no_sections_issue ==
    Issue("no_sections", "HIGH", DASH, DASH,
          Detail("grammarData has no sections", 0, <<>>, <<>>, <<>>))

file_meta(sections, size) ==
    [sections |-> Len(sections), questions |-> SumLen(sections, Len(sections)),
     size_kb |-> size_kb(size)]

\* validate_file(filepath) when it returns: <<filename, issues>> on the two
\* early returns, <<filename, issues, meta>> otherwise
\* validate_file on a file that can be read, given its name, size and text
validate_file_on(filename, size, content) ==
    LET size_issues == file_size_issues(size)
        parsed == parse_grammar_data(content)
        error == parsed[2]
        sections == Get(parsed[1], "sections", <<>>)
    IN IF error # ""
       THEN <<filename, Append(size_issues, parse_error_issue(error))>>
       ELSE IF Falsy(sections)
       THEN <<filename, Append(size_issues, no_sections_issue)>>
       ELSE <<filename,
              size_issues \o category_map_issues(content, sections)
                  \o ConcatIdx(LAMBDA k : section_issues(sections[k]), Len(sections)),
              file_meta(sections, size)>>

validate_file(filepath) ==
    validate_file_on(filepath, Disk[filepath].size, Disk[filepath].content)

\* print_report passing a file whose findings are all LOW
print_report_low_passes(filename, issues, meta) ==
    \A k \in DOMAIN issues : issues[k].severity = "LOW"

\* the return value of print_report(filename, issues, meta)
print_report(filename, issues, meta) == Falsy(issues)

\* total_issues after `for issue in issues: total_issues[severity] += 1`
CountSeverity(issues, sev) ==
    Cardinality({k \in DOMAIN issues : issues[k].severity = sev})

Severities == {"HIGH", "MEDIUM", "LOW"}

(***************************************************************************)
(* english-resources-validate.py: main().                                  *)
(***************************************************************************)
LeakIdle ==
    /\ lpc = "idle" /\ question = [num |-> NUM] /\ section_title = SectionTitle
    /\ answer_words = <<>> /\ vocab_issues = <<>> /\ hint_issues = <<>>

FileIdle ==
    /\ fpc = "idle" /\ document = [name |-> 0] /\ data = [sections |-> <<>>]
    /\ file_issues = <<>> /\ local = <<>> /\ pos = 1 /\ returned = <<>>

ExtractIdle ==
    xpc = "idle" /\ html_content = <<>> /\ raw = <<>> /\ js_obj = <<>>

\* the components other than `tool` are not running
ToolIdle(tool) ==
    /\ tool = "js_to_json"
       \/ (npc = "idle" /\ js_text = <<>> /\ json_text = <<>>)
    /\ tool = "upload"
       \/ (/\ upc = "idle" /\ dry_run = FALSE /\ lesson_index = 0 /\ extracted = <<>>
           /\ remote = <<>> /\ requests = 0 /\ uploads = <<>>)
    /\ tool = "generate"
       \/ (/\ gpc = "idle" /\ data_json = [kind |-> "missing"] /\ settings = [none |-> TRUE]
           /\ run = 0 /\ writes = <<>>)

Init ==
    /\ LeakIdle
    /\ FileIdle
    /\ ExtractIdle
    /\ ToolIdle("none")
    /\ pc = "args"
    /\ \/ /\ argv \in SeqsUpTo(Paths, MaxFiles) \ {<<>>}
          /\ lessons_dir = [exists |-> FALSE, entries |-> {}]
       \/ /\ argv = <<>>
          /\ lessons_dir \in
                {[exists |-> FALSE, entries |-> {}]}
                \cup {[exists |-> TRUE, entries |-> S] :
                         S \in {X \in SUBSET DOMAIN Disk : Cardinality(X) <= MaxFiles}}
    /\ files = <<>>
    /\ done = 0
    /\ all_passed = TRUE
    /\ total_issues = [s \in Severities |-> 0]
    /\ reports = <<>>
    /\ exit_status = "none"

Exit(status) ==
    /\ pc' = "exit"
    /\ exit_status' = status

\* lines 454-461 with every argument an existing file
CollectArgs ==
    /\ pc = "args"
    /\ Len(argv) > 0
    /\ \A i \in DOMAIN argv : isfile(argv[i])
    /\ files' = argv
    /\ pc' = "collected"
    /\ UNCHANGED <<argv, lessons_dir, done, all_passed, total_issues, reports,
                   exit_status>>
    /\ UNCHANGED <<leakVars, fileVars, extractVars, toolVars>>

\* lines 459-461: "File not found", sys.exit(1) at the first missing argument
ArgNotFound ==
    /\ pc = "args"
    /\ Len(argv) > 0
    /\ \E i \in DOMAIN argv :
          /\ ~isfile(argv[i])
          /\ \A j \in 1..(i - 1) : isfile(argv[j])
          /\ files' = SubSeq(argv, 1, i - 1)
    /\ Exit(1)
    /\ UNCHANGED <<argv, lessons_dir, done, all_passed, total_issues, reports>>
    /\ UNCHANGED <<leakVars, fileVars, extractVars, toolVars>>

\* lines 464-466: the Dual Scope directory is not there
DirNotFound ==
    /\ pc = "args"
    /\ Len(argv) = 0
    /\ ~lessons_dir.exists
    /\ Exit(1)
    /\ UNCHANGED <<argv, lessons_dir, files, done, all_passed, total_issues,
                   reports>>
    /\ UNCHANGED <<leakVars, fileVars, extractVars, toolVars>>

\* lines 468-470: the Lesson*.html entries of the directory, sorted
CollectDir ==
    /\ pc = "args"
    /\ Len(argv) = 0
    /\ lessons_dir.exists
    /\ files' = Sorted({f \in lessons_dir.entries : Disk[f].lesson})
    /\ pc' = "collected"
    /\ UNCHANGED <<argv, lessons_dir, done, all_passed, total_issues, reports,
                   exit_status>>
    /\ UNCHANGED <<leakVars, fileVars, extractVars, toolVars>>

\* lines 472-474
NoFiles ==
    /\ pc = "collected"
    /\ Falsy(files)
    /\ Exit(1)
    /\ UNCHANGED <<argv, lessons_dir, files, done, all_passed, total_issues,
                   reports>>
    /\ UNCHANGED <<leakVars, fileVars, extractVars, toolVars>>

\* lines 476-480
StartLoop ==
    /\ pc = "collected"
    /\ ~Falsy(files)
    /\ pc' = "loop"
    /\ all_passed' = TRUE
    /\ total_issues' = [s \in Severities |-> 0]
    /\ UNCHANGED <<argv, lessons_dir, files, done, reports, exit_status>>
    /\ UNCHANGED <<leakVars, fileVars, extractVars, toolVars>>

\* validate_file(filepath) for every file on disk (the files do not change
\* during a run, so each value is computed once)
validate_file_of == [filepath \in DOMAIN Disk |-> validate_file(filepath)]

\* one iteration of `for filepath in files` (lines 482-494)
ValidateFile ==
    /\ pc = "loop"
    /\ done < Len(files)
    /\ ~validate_file_raises(files[done + 1])
    /\ LET result == validate_file_of[files[done + 1]]
           filename == result[1]
           issues == result[2]
           meta == IF Len(result) = 3 THEN <<result[3]>> ELSE <<>>
           passed == print_report(filename, issues, meta)
       IN /\ all_passed' = (IF ~passed THEN FALSE ELSE all_passed)
          /\ total_issues' =
                [s \in Severities |-> total_issues[s] + CountSeverity(issues, s)]
          /\ reports' = Append(reports, result)
    /\ done' = done + 1
    /\ UNCHANGED <<pc, argv, lessons_dir, files, exit_status>>
    /\ UNCHANGED <<leakVars, fileVars, extractVars, toolVars>>

\* validate_file raises (the file cannot be read): nothing in main() catches
\* it, the interpreter prints the traceback and exits with status 1
ValidateFileRaises ==
    /\ pc = "loop"
    /\ done < Len(files)
    /\ validate_file_raises(files[done + 1])
    /\ Exit(1)
    /\ UNCHANGED <<argv, lessons_dir, files, done, all_passed, total_issues,
                   reports>>
    /\ UNCHANGED <<leakVars, fileVars, extractVars, toolVars>>

\* lines 496-506
Finish ==
    /\ pc = "loop"
    /\ done = Len(files)
    /\ Exit(IF all_passed THEN 0 ELSE 1)
    /\ UNCHANGED <<argv, lessons_dir, files, done, all_passed, total_issues,
                   reports>>
    /\ UNCHANGED <<leakVars, fileVars, extractVars, toolVars>>

Next ==
    \/ CollectArgs
    \/ ArgNotFound
    \/ DirNotFound
    \/ CollectDir
    \/ NoFiles
    \/ StartLoop
    \/ ValidateFile
    \/ ValidateFileRaises
    \/ Finish

Spec == Init /\ [][Next]_vars

(***************************************************************************)
(* The pure checks, applied to a question drawn from QuestionSet.          *)
(***************************************************************************)
MainIdle ==
    /\ pc = "idle" /\ argv = <<>> /\ lessons_dir = [exists |-> FALSE, entries |-> {}]
    /\ files = <<>> /\ done = 0 /\ all_passed = TRUE
    /\ total_issues = [s \in Severities |-> 0]
    /\ reports = <<>> /\ exit_status = "none"

InitLeak ==
    /\ MainIdle
    /\ FileIdle
    /\ ExtractIdle
    /\ ToolIdle("none")
    /\ lpc = "start"
    /\ QuestionSet
    /\ section_title = SectionTitle
    /\ answer_words = <<>>
    /\ vocab_issues = <<>>
    /\ hint_issues = <<>>

ExtractAnswerWords ==
    /\ lpc = "start"
    /\ answer_words' = extract_answer_words(Get(question, "answer", <<>>))
    /\ lpc' = "words"
    /\ UNCHANGED <<question, section_title, vocab_issues, hint_issues>>
    /\ UNCHANGED <<mainVars, fileVars, extractVars, toolVars>>

CheckVocabLeaks ==
    /\ lpc = "words"
    /\ vocab_issues' = check_vocab_leaks(question, section_title)
    /\ lpc' = "vocab"
    /\ UNCHANGED <<question, section_title, answer_words, hint_issues>>
    /\ UNCHANGED <<mainVars, fileVars, extractVars, toolVars>>

CheckHintLeaks ==
    /\ lpc = "vocab"
    /\ hint_issues' = check_hint_leaks(question, section_title)
    /\ lpc' = "done"
    /\ UNCHANGED <<question, section_title, answer_words, vocab_issues>>
    /\ UNCHANGED <<mainVars, fileVars, extractVars, toolVars>>

NextLeak == ExtractAnswerWords \/ CheckVocabLeaks \/ CheckHintLeaks

SpecLeak == InitLeak /\ [][NextLeak]_vars

(***************************************************************************)
(* validate_file, statement by statement, on one document.                 *)
(***************************************************************************)
MaxHints == 4
MaxSections == 2

\* section titles without and with a composition marker
Titles ==
    {Title_plain, Title_reorder,
     <<"3"," ","U+82F1","U+4F5C","U+6587">>,
     <<"U+7A7A","U+6240","U+88DC","U+5145"," ","A">>}

\* a field of a question: not there, whitespace only, or filled in
FieldStates == {"absent", "blank", "good"}

Restrict(q, keys) == [k \in keys |-> q[k]]

\* a question whose text, answer and translation are in the given states, with
\* vocab and hints (pedagogy) or with neither
FieldQuestion(t, a, tr, pedagogy) ==
    LET BLANK == <<" ", " ">>
        T_text == <<"H","e"," ","i","s"," ","("," ",")",".">>
        T_translation == <<"U+5F7C","U+306F","U+6B63","U+76F4","U+3060">>
        val(state, good) == IF state = "blank" THEN BLANK ELSE good
        full == [num |-> NUM, text |-> val(t, T_text), answer |-> val(a, B_honest),
                 translation |-> val(tr, T_translation),
                 vocab |-> <<Entry(W_go)>>, hint |-> <<H_think, H_think, H_think>>]
    IN Restrict(full, {"num"}
                      \cup (IF t = "absent" THEN {} ELSE {"text"})
                      \cup (IF a = "absent" THEN {} ELSE {"answer"})
                      \cup (IF tr = "absent" THEN {} ELSE {"translation"})
                      \cup (IF pedagogy THEN {"vocab", "hint"} ELSE {}))

\* a complete question with n hints
HintQuestion(n) == [Q_clean EXCEPT !.hint = [i \in 1..n |-> H_think]]

\* n sections, the first with a title and two questions, the others untitled
SectionList(n) ==
    [s \in 1..n |-> IF s = 1
                    THEN [title |-> Title_reorder, questions |-> <<Q_leak, Q_bare>>]
                    ELSE IF s = 2 THEN [questions |-> <<Q_low>>]
                    ELSE [title |-> Title_plain, questions |-> <<>>]]

Sizes == {SmallSize, MAX_HTML_SIZE, MAX_HTML_SIZE + 1}

Document(readable, size, content) ==
    [name |-> 1, readable |-> readable, size |-> size, content |-> content]

\* the document under validation is drawn from these shapes
DocumentSet ==
    \/ \E t \in FieldStates, a \in FieldStates, tr \in FieldStates,
          pedagogy \in BOOLEAN, title \in Titles :
          document = Document(TRUE, SmallSize,
              Parsed(<<[title |-> title,
                        questions |-> <<FieldQuestion(t, a, tr, pedagogy)>>]>>, M_0))
    \/ \E n \in 0..MaxHints, size \in Sizes :
          document = Document(TRUE, size, Parsed(OneSection(HintQuestion(n)), M_0))
    \* a complete question with no hint field
    \/ document = Document(TRUE, SmallSize,
           Parsed(OneSection(Restrict(Q_clean, DOMAIN Q_clean \ {"hint"})), M_0))
    \/ \E n \in 0..MaxSections, map \in CategoryMaps, size \in Sizes :
          document = Document(TRUE, size, Parsed(SectionList(n), map))
    \/ \E kind \in {"absent", "unparseable"}, map \in {Undeclared, M_1},
          size \in Sizes :
          document = Document(TRUE, size, [Unparsed(kind) EXCEPT !.categoryMap = map])
    \/ \E size \in Sizes :
          document = Document(FALSE, size, Parsed(OneSection(Q_clean), M_0))

\* the (title, question) pairs in the order the nested loops of lines 401-410
\* visit them
flat_questions(sections) ==
    ConcatIdx(LAMBDA s :
        LET title == Get(sections[s], "title", UnknownSection)
            questions == Get(sections[s], "questions", <<>>)
        IN [k \in 1..Len(questions) |-> [title |-> title, q |-> questions[k]]],
        Len(sections))

Sections == Get(data, "sections", <<>>)
Current == flat_questions(Sections)[pos]

InitFile ==
    /\ MainIdle /\ LeakIdle
    /\ ExtractIdle
    /\ ToolIdle("none")
    /\ fpc = "size"
    /\ DocumentSet
    /\ data = [sections |-> <<>>]
    /\ file_issues = <<>>
    /\ local = <<>>
    /\ pos = 1
    /\ returned = <<>>

\* lines 337-345
CheckFileSize ==
    /\ fpc = "size"
    /\ file_issues' = file_issues \o file_size_issues(document.size)
    /\ fpc' = "open"
    /\ UNCHANGED <<document, data, local, pos, returned>>
    /\ UNCHANGED <<mainVars, leakVars, extractVars, toolVars>>

\* lines 347-348 raising
OpenRaises ==
    /\ fpc = "open"
    /\ ~document.readable
    /\ fpc' = "raised"
    /\ UNCHANGED <<document, data, file_issues, local, pos, returned>>
    /\ UNCHANGED <<mainVars, leakVars, extractVars, toolVars>>

\* lines 347-360 with an error from parse_grammar_data
ParseError ==
    /\ fpc = "open"
    /\ document.readable
    /\ LET parsed == parse_grammar_data(document.content) IN
       /\ parsed[2] # ""
       /\ file_issues' = Append(file_issues, parse_error_issue(parsed[2]))
       /\ returned' = <<document.name, file_issues'>>
    /\ fpc' = "done"
    /\ UNCHANGED <<document, data, local, pos>>
    /\ UNCHANGED <<mainVars, leakVars, extractVars, toolVars>>

\* the no-sections branch without its `return`: the finding is added and
\* validate_file goes on to the categoryMap check
NoSections_continues ==
    /\ fpc = "open"
    /\ document.readable
    /\ LET parsed == parse_grammar_data(document.content) IN
       /\ parsed[2] = ""
       /\ Falsy(Get(parsed[1], "sections", <<>>))
       /\ data' = parsed[1]
       /\ file_issues' = Append(file_issues, no_sections_issue)
    /\ fpc' = "categoryMap"
    /\ UNCHANGED <<document, local, pos, returned>>
    /\ UNCHANGED <<mainVars, leakVars, extractVars, toolVars>>

\* lines 347-371 with no sections in the parsed data
NoSections ==
    /\ fpc = "open"
    /\ document.readable
    /\ LET parsed == parse_grammar_data(document.content) IN
       /\ parsed[2] = ""
       /\ Falsy(Get(parsed[1], "sections", <<>>))
       /\ data' = parsed[1]
       /\ file_issues' = Append(file_issues, no_sections_issue)
       /\ returned' = <<document.name, file_issues'>>
    /\ fpc' = "done"
    /\ UNCHANGED <<document, local, pos>>
    /\ UNCHANGED <<mainVars, leakVars, extractVars, toolVars>>

\* lines 347-363 with sections
ParseSections ==
    /\ fpc = "open"
    /\ document.readable
    /\ LET parsed == parse_grammar_data(document.content) IN
       /\ parsed[2] = ""
       /\ ~Falsy(Get(parsed[1], "sections", <<>>))
       /\ data' = parsed[1]
    /\ fpc' = "categoryMap"
    /\ UNCHANGED <<document, file_issues, local, pos, returned>>
    /\ UNCHANGED <<mainVars, leakVars, extractVars, toolVars>>

\* where the loops of lines 401-410 go after the question at position p
AfterQuestion(p) == IF p < Len(flat_questions(Sections)) THEN "vocab" ELSE "meta"

\* lines 373-397
CheckCategoryMap ==
    /\ fpc = "categoryMap"
    /\ file_issues' = file_issues \o category_map_issues(document.content, Sections)
    /\ pos' = 1
    /\ fpc' = AfterQuestion(0)
    /\ UNCHANGED <<document, data, local, returned>>
    /\ UNCHANGED <<mainVars, leakVars, extractVars, toolVars>>

\* line 407
FileCheckVocabLeaks ==
    /\ fpc = "vocab"
    /\ file_issues' = file_issues \o check_vocab_leaks(Current.q, Current.title)
    /\ fpc' = "hint"
    /\ UNCHANGED <<document, data, local, pos, returned>>
    /\ UNCHANGED <<mainVars, leakVars, extractVars, toolVars>>

\* line 408
FileCheckHintLeaks ==
    /\ fpc = "hint"
    /\ file_issues' = file_issues \o check_hint_leaks(Current.q, Current.title)
    /\ fpc' = "fields"
    /\ UNCHANGED <<document, data, local, pos, returned>>
    /\ UNCHANGED <<mainVars, leakVars, extractVars, toolVars>>

\* a required-fields check that writes the default title and question list
\* into the sections that lack them
CreateFieldFindings_fills_defaults ==
    /\ fpc = "fields"
    /\ local' = required_fields_created(Current.q, Current.title)
    /\ data' = [data EXCEPT !.sections =
                    [s \in DOMAIN data.sections |->
                        [title |-> Get(data.sections[s], "title", UnknownSection),
                         questions |-> Get(data.sections[s], "questions", <<>>)]]]
    /\ fpc' = "demote"
    /\ UNCHANGED <<document, file_issues, pos, returned>>
    /\ UNCHANGED <<mainVars, leakVars, extractVars, toolVars>>

\* line 409, check_required_fields lines 272-296: the findings are created
CreateFieldFindings ==
    /\ fpc = "fields"
    /\ local' = required_fields_created(Current.q, Current.title)
    /\ fpc' = "demote"
    /\ UNCHANGED <<document, data, file_issues, pos, returned>>
    /\ UNCHANGED <<mainVars, leakVars, extractVars, toolVars>>

\* check_required_fields lines 298-308: the pass over the created findings
DemoteTranslation ==
    /\ fpc = "demote"
    /\ local' = demote_pass(local, Current.title)
    /\ fpc' = "extend"
    /\ UNCHANGED <<document, data, file_issues, pos, returned>>
    /\ UNCHANGED <<mainVars, leakVars, extractVars, toolVars>>

\* check_required_fields line 310 and file_issues.extend of line 409
ReturnFieldFindings ==
    /\ fpc = "extend"
    /\ file_issues' = file_issues \o local
    /\ local' = <<>>
    /\ fpc' = "count"
    /\ UNCHANGED <<document, data, pos, returned>>
    /\ UNCHANGED <<mainVars, leakVars, extractVars, toolVars>>

\* line 410, and the step of the loops to the next question
FileCheckHintCount ==
    /\ fpc = "count"
    /\ file_issues' = file_issues \o check_hint_count(Current.q, Current.title)
    /\ fpc' = AfterQuestion(pos)
    /\ pos' = IF pos < Len(flat_questions(Sections)) THEN pos + 1 ELSE pos
    /\ UNCHANGED <<document, data, local, returned>>
    /\ UNCHANGED <<mainVars, leakVars, extractVars, toolVars>>

\* ReturnResult returning the findings without the metadata
ReturnResult_without_meta ==
    /\ fpc = "meta"
    /\ returned' = <<document.name, file_issues>>
    /\ fpc' = "done"
    /\ UNCHANGED <<document, data, file_issues, local, pos>>
    /\ UNCHANGED <<mainVars, leakVars, extractVars, toolVars>>

\* lines 412-419
ReturnResult ==
    /\ fpc = "meta"
    /\ returned' = <<document.name, file_issues, file_meta(Sections, document.size)>>
    /\ fpc' = "done"
    /\ UNCHANGED <<document, data, file_issues, local, pos>>
    /\ UNCHANGED <<mainVars, leakVars, extractVars, toolVars>>

\* a second call that finds the list `issues` of the first call still filled
\* (a list kept between calls instead of created at line 334)
CallAgain_keeps_issues ==
    /\ fpc = "done"
    /\ reports = <<>>
    /\ reports' = <<returned>>
    /\ fpc' = "size"
    /\ UNCHANGED <<document, data, file_issues, local, pos, returned>>
    /\ UNCHANGED <<pc, argv, files, done, all_passed, total_issues, exit_status,
                   lessons_dir>>
    /\ UNCHANGED <<leakVars, extractVars, toolVars>>

\* main, lines 482-483, calling validate_file a second time on the same file,
\* and lines 333-334 of that call; the first result is kept in reports
CallAgain ==
    /\ fpc = "done"
    /\ reports = <<>>
    /\ reports' = <<returned>>
    /\ fpc' = "size"
    /\ file_issues' = <<>>
    /\ UNCHANGED <<document, data, local, pos, returned>>
    /\ UNCHANGED <<pc, argv, files, done, all_passed, total_issues, exit_status,
                   lessons_dir>>
    /\ UNCHANGED <<leakVars, extractVars, toolVars>>

NextFile ==
    \/ CheckFileSize \/ OpenRaises \/ ParseError \/ NoSections \/ ParseSections
    \/ CheckCategoryMap \/ FileCheckVocabLeaks \/ FileCheckHintLeaks
    \/ CreateFieldFindings \/ DemoteTranslation \/ ReturnFieldFindings
    \/ FileCheckHintCount \/ ReturnResult \/ CallAgain

SpecFile == InitFile /\ [][NextFile]_vars

\* the statement-by-statement run returns what validate_file returns
StepwiseAgrees ==
    fpc = "done" =>
        returned = validate_file_on(document.name, document.size, document.content)

(***************************************************************************)
(* Extraction of the grammarData literal from the text of a lesson file:   *)
(* extract_grammar_data_text of english-resources-validate.py and          *)
(* extract_grammar_data of upload-answers.py.                              *)
(***************************************************************************)
MaxBody == 4

\* the double quote, the single quote, the backtick and the backslash
DQUOTE == "U+0022"
SQUOTE == "U+0027"
BACKTICK == "U+0060"
BACKSLASH == "U+005C"

CONST_GRAMMAR_DATA ==
    <<"c","o","n","s","t"," ","g","r","a","m","m","a","r","D","a","t","a">>

\* does pattern p occur in s at index i
At(s, i, p) == i >= 1 /\ i + Len(p) - 1 <= Len(s) /\ SubSeq(s, i, i + Len(p) - 1) = p

\* first index from i on that is not whitespace (Len(s) + 1 when there is none)
RECURSIVE SkipSpace(_, _)
SkipSpace(s, i) ==
    IF i <= Len(s) /\ IsSpace(s[i]) THEN SkipSpace(s, i + 1) ELSE i

\* re.search(r'const grammarData\s*=\s*\{', html): <<start, index of the
\* brace>> of the first match, <<>> when there is none
declaration(html) ==
    LET brace(m) ==
            LET eq == SkipSpace(html, m + Len(CONST_GRAMMAR_DATA))
                br == SkipSpace(html, eq + 1)
            IN IF eq <= Len(html) /\ html[eq] = "=" /\ br <= Len(html)
                  /\ html[br] = "{"
               THEN br ELSE 0
        starts == {m \in 1..Len(html) :
                      At(html, m, CONST_GRAMMAR_DATA) /\ brace(m) # 0}
    IN IF starts = {} THEN <<>>
       ELSE LET m == CHOOSE x \in starts : \A y \in starts : x <= y
            IN <<m, brace(m)>>

CLOSING == <<"\n", "}", ";">>

\* extract_grammar_data_text(html_content): group(1) of
\* re.search(r'const grammarData\s*=\s*(\{.*?\n\});', html, re.DOTALL);
\* <<>> for None
extract_grammar_data_text(html) ==
    LET decl == declaration(html)
        ends == IF decl = <<>> THEN {}
                ELSE {j \in (decl[2] + 1)..Len(html) : At(html, j, CLOSING)}
    IN IF ends = {} THEN <<>>
       ELSE SubSeq(html, decl[2],
                   (CHOOSE j \in ends : \A k \in ends : j <= k) + 1)

\* len("const grammarData = ")
DECL_LEN == Len(CONST_GRAMMAR_DATA) + 3

\* upload-answers.py lines 64-67 and 71-74: the index the inner while loop
\* stops at (the closing quote, or past the end of the text)
RECURSIVE skip_string(_, _, _)
skip_string(html, i, quote) ==
    IF i > Len(html) \/ html[i] = quote THEN i
    ELSE IF html[i] = BACKSLASH THEN skip_string(html, i + 2, quote)
    ELSE skip_string(html, i + 1, quote)

\* upload-answers.py lines 52-75: the value of i when the while loop is left
RECURSIVE scan(_, _, _)
scan(html, i, depth) ==
    IF i > Len(html) THEN i
    ELSE IF html[i] = "{" THEN scan(html, i + 1, depth + 1)
    ELSE IF html[i] = "}"
         THEN IF depth - 1 = 0 THEN i ELSE scan(html, i + 1, depth - 1)
    ELSE IF html[i] \in {DQUOTE, SQUOTE, BACKTICK}
         THEN scan(html, skip_string(html, i + 1, html[i]) + 1, depth)
    ELSE scan(html, i + 1, depth)

\* upload-answers.py lines 43-77: js_obj = html_content[start:i + 1]; <<>> when
\* the declaration is not found
extract_js_obj(html) ==
    LET decl == declaration(html)
        start == decl[1] + DECL_LEN
    IN IF decl = <<>> THEN <<>>
       ELSE SubSeq(html, start, Min(scan(html, start, 0), Len(html)))

\* the pieces a grammarData literal is put together from
BodyTokens ==
    {<<"{">>, <<"}">>, <<DQUOTE>>, <<SQUOTE>>, <<BACKTICK>>, <<BACKSLASH>>, <<"a">>, CLOSING}

RECURSIVE Flatten(_)
Flatten(ts) == IF ts = <<>> THEN <<>> ELSE ts[1] \o Flatten(Tail(ts))

Declarations == {CONST_GRAMMAR_DATA \o <<" ", "=", " ">>,
                 CONST_GRAMMAR_DATA \o <<"=">>}

\* <script> text: a declaration, a literal of at most MaxBody pieces closed by
\* a line holding "};", and the statement after it
HtmlDocument(decl, body) ==
    decl \o <<"{">> \o Flatten(body) \o CLOSING \o <<"\n", "v", "a", "r", " ", "x", ";">>

InitExtract ==
    /\ MainIdle /\ LeakIdle /\ FileIdle
    /\ ToolIdle("none")
    /\ xpc = "start"
    /\ \E decl \in Declarations, n \in 0..MaxBody :
          \E body \in [1..n -> BodyTokens] : html_content = HtmlDocument(decl, body)
    /\ raw = <<>>
    /\ js_obj = <<>>

\* english-resources-validate.py line 68
ExtractText ==
    /\ xpc = "start"
    /\ raw' = extract_grammar_data_text(html_content)
    /\ xpc' = "text"
    /\ UNCHANGED <<html_content, js_obj>>
    /\ UNCHANGED <<mainVars, leakVars, fileVars, toolVars>>

\* upload-answers.py lines 43-77
ExtractJsObj ==
    /\ xpc = "text"
    /\ js_obj' = extract_js_obj(html_content)
    /\ xpc' = "done"
    /\ UNCHANGED <<html_content, raw>>
    /\ UNCHANGED <<mainVars, leakVars, fileVars, toolVars>>

NextExtract == ExtractText \/ ExtractJsObj

SpecExtract == InitExtract /\ [][NextExtract]_vars

(***************************************************************************)
(* js_to_json of english-resources-validate.py: four re.sub passes over    *)
(* the text of the literal.                                                *)
(***************************************************************************)
MaxContent == 3

\* first index from i on holding a newline (Len(s) + 1 when there is none)
RECURSIVE LineEnd(_, _)
LineEnd(s, i) == IF i <= Len(s) /\ s[i] # "\n" THEN LineEnd(s, i + 1) ELSE i

\* re.sub(r'//[^\n]*', '', text), from index i on
RECURSIVE strip_line_comments(_, _)
strip_line_comments(s, i) ==
    IF i > Len(s) THEN <<>>
    ELSE IF At(s, i, <<"/", "/">>) THEN strip_line_comments(s, LineEnd(s, i + 2))
    ELSE <<s[i]>> \o strip_line_comments(s, i + 1)

\* re.sub(r'/\*.*?\*/', '', text, flags=re.DOTALL), from index i on
RECURSIVE strip_block_comments(_, _)
strip_block_comments(s, i) ==
    LET closes == {j \in (i + 2)..Len(s) : At(s, j, <<"*", "/">>)}
    IN IF i > Len(s) THEN <<>>
       ELSE IF At(s, i, <<"/", "*">>) /\ closes # {}
       THEN strip_block_comments(s,
                (CHOOSE j \in closes : \A k \in closes : j <= k) + 2)
       ELSE <<s[i]>> \o strip_block_comments(s, i + 1)

\* first index from i on that is not a word character
RECURSIVE WordEnd(_, _)
WordEnd(s, i) == IF i <= Len(s) /\ IsWordChar(s[i]) THEN WordEnd(s, i + 1) ELSE i

\* re.sub(r'(?<=[{,\n])\s*(\w+)\s*:', r' "\1":', text), from index i on
RECURSIVE quote_keys(_, _)
quote_keys(s, i) ==
    LET word == SkipSpace(s, i)
        after == WordEnd(s, word)
        colon == SkipSpace(s, after)
    IN IF i > Len(s) THEN <<>>
       ELSE IF /\ i > 1 /\ s[i - 1] \in {"{", ",", "\n"}
               /\ after > word
               /\ colon <= Len(s) /\ s[colon] = ":"
       THEN <<" ", DQUOTE>> \o SubSeq(s, word, after - 1) \o <<DQUOTE, ":">>
                \o quote_keys(s, colon + 1)
       ELSE <<s[i]>> \o quote_keys(s, i + 1)

\* re.sub(r',\s*([}\]])', r'\1', text), from index i on
RECURSIVE strip_trailing_commas(_, _)
strip_trailing_commas(s, i) ==
    LET closer == SkipSpace(s, i + 1)
    IN IF i > Len(s) THEN <<>>
       ELSE IF s[i] = "," /\ closer <= Len(s) /\ s[closer] \in {"}", "]"}
       THEN <<s[closer]>> \o strip_trailing_commas(s, closer + 1)
       ELSE <<s[i]>> \o strip_trailing_commas(s, i + 1)

js_to_json(text) ==
    strip_trailing_commas(
        quote_keys(strip_block_comments(strip_line_comments(text, 1), 1), 1), 1)

\* what a string value of the literal is put together from
ContentTokens ==
    {<<"/", "/">>, <<"/", "*">>, <<",", " ">>, <<"b">>, <<":">>, <<"]">>}

\* the text of the literal up to and including the opening quote of the value
LiteralHeads ==
    {<<"{", DQUOTE, "k", DQUOTE, ":", " ", DQUOTE>>,
     <<"{", " ", "/", "/", " ", "c", "\n", DQUOTE, "k", DQUOTE, ":", " ", DQUOTE>>,
     <<"{", " ", "/", "*", " ", "c", " ", "*", "/", " ", DQUOTE, "k", DQUOTE, ":",
       " ", DQUOTE>>,
     <<"{", "\n", " ", "a", ":", " ", "1", ",", "\n", " ", DQUOTE, "k", DQUOTE, ":",
       " ", DQUOTE>>}

\* the text of the literal from the closing quote of the value on
LiteralTails ==
    {<<DQUOTE, "}">>,
     <<DQUOTE, ",", "\n", "}">>,
     <<DQUOTE, " ", "/", "*", " ", "d", " ", "*", "/", "}">>}

InitJson ==
    /\ MainIdle /\ LeakIdle /\ FileIdle /\ ExtractIdle
    /\ ToolIdle("js_to_json")
    /\ npc = "start"
    /\ \E head \in LiteralHeads, tail \in LiteralTails, n \in 0..MaxContent :
          \E content \in [1..n -> ContentTokens] :
              js_text = head \o Flatten(content) \o tail
    /\ json_text = <<>>

\* english-resources-validate.py line 72
Normalize ==
    /\ npc = "start"
    /\ json_text' = js_to_json(js_text)
    /\ npc' = "done"
    /\ UNCHANGED <<js_text, uploadVars, genVars>>
    /\ UNCHANGED <<mainVars, leakVars, fileVars, extractVars>>

NextJson == Normalize

SpecJson == InitJson /\ [][NextJson]_vars

(***************************************************************************)
(* main and upload_to_firebase of upload-answers.py.                       *)
(***************************************************************************)
\* the exam ids of LESSONS, in order
LESSONS ==
    <<"ds-lesson15-conjunctions", "ds-lesson16-nouns-articles",
      "ds-lesson17-adjectives-adverbs">>

\* answerData of one question, as JSON.parse of the node output gives it
AnswerText(chars) == [answer |-> [type |-> "string", text |-> chars]]
AnswerNumber(digits) == [answer |-> [type |-> "number", text |-> digits]]

\* what extract_with_node returns: sections of questions; <<>> stands for
\* None and for an empty result, which main treats alike (`if not data`)
NodeResults ==
    {<<>>,
     <<<<AnswerText(W_go)>>>>,
     <<<<AnswerText(B_honest), AnswerText(W_so)>>, <<AnswerText(W_go)>>>>,
     <<<<AnswerNumber(<<"3">>)>>>>}

\* the stores the run can find: nothing uploaded yet, or an earlier upload of
\* the first lesson
Stores ==
    {[id \in DOMAIN LESSONS |-> <<>>],
     [id \in DOMAIN LESSONS |-> IF id = 1 THEN <<<<AnswerText(W_so)>>>> ELSE <<>>]}

\* what the PUT request can come to: the response status, or "error" for an
\* exception in urlopen; stored tells whether the server took the data
PutOutcomes ==
    {[status |-> "200", stored |-> TRUE],
     [status |-> "204", stored |-> TRUE],
     [status |-> "error", stored |-> FALSE],
     [status |-> "error", stored |-> TRUE]}

\* upload_to_firebase sending the request in dry-run mode too
upload_to_firebase_always_puts(dry, outcome) ==
    [sent |-> TRUE, stored |-> outcome.stored, ok |-> outcome.status = "200"]

\* upload_to_firebase(exam_id, data, dry_run) when the PUT comes to `outcome`:
\* whether a request was sent, whether the store took the data, and the
\* returned value
upload_to_firebase(dry, outcome) ==
    IF dry THEN [sent |-> FALSE, stored |-> FALSE, ok |-> TRUE]
    ELSE [sent |-> TRUE, stored |-> outcome.stored, ok |-> outcome.status = "200"]

\* lines 283-286: does the sample print raise (slicing an answer that is not
\* a string)
sample_raises(answers) ==
    LET first_sec == IF Len(answers) >= 1 THEN answers[1] ELSE <<>>
        first_q == IF Len(first_sec) >= 1 THEN first_sec[1] ELSE [none |-> 0]
    IN "answer" \in DOMAIN first_q /\ first_q.answer.type = "number"

InitUpload ==
    /\ MainIdle /\ LeakIdle /\ FileIdle /\ ExtractIdle
    /\ ToolIdle("upload")
    /\ upc = "lesson"
    /\ dry_run \in BOOLEAN
    /\ lesson_index = 1
    /\ extracted = <<>>
    /\ remote \in Stores
    /\ requests = 0
    /\ uploads = <<>>

\* lines 270-272: the lesson file is not there
LessonNotFound ==
    /\ upc = "lesson"
    /\ lesson_index <= Len(LESSONS)
    /\ lesson_index' = lesson_index + 1
    /\ UNCHANGED <<upc, dry_run, extracted, remote, requests, uploads>>
    /\ UNCHANGED <<mainVars, leakVars, fileVars, extractVars, jsonVars, genVars>>

\* lines 275-278: extract_with_node returns nothing usable
ExtractFailed ==
    /\ upc = "lesson"
    /\ lesson_index <= Len(LESSONS)
    /\ \E answers \in NodeResults : Falsy(answers)
    /\ lesson_index' = lesson_index + 1
    /\ UNCHANGED <<upc, dry_run, extracted, remote, requests, uploads>>
    /\ UNCHANGED <<mainVars, leakVars, fileVars, extractVars, jsonVars, genVars>>

\* lines 275-286 with data: the counts and the sample are printed
ExtractedWithNode ==
    /\ upc = "lesson"
    /\ lesson_index <= Len(LESSONS)
    /\ \E answers \in NodeResults :
          /\ ~Falsy(answers)
          /\ ~sample_raises(answers)
          /\ extracted' = answers
    /\ upc' = "upload"
    /\ UNCHANGED <<dry_run, lesson_index, remote, requests, uploads>>
    /\ UNCHANGED <<mainVars, leakVars, fileVars, extractVars, jsonVars, genVars>>

\* lines 275-286 raising: the file is not UTF-8 text (line 172), or the sample
\* answer cannot be sliced (line 286); main catches nothing
UploadMainRaises ==
    /\ upc = "lesson"
    /\ lesson_index <= Len(LESSONS)
    /\ upc' = "raised"
    /\ UNCHANGED <<dry_run, lesson_index, extracted, remote, requests, uploads>>
    /\ UNCHANGED <<mainVars, leakVars, fileVars, extractVars, jsonVars, genVars>>

\* lines 289-294: upload_to_firebase(exam_id, data, dry_run)
Upload ==
    /\ upc = "upload"
    /\ \E outcome \in PutOutcomes :
          LET r == upload_to_firebase(dry_run, outcome) IN
          /\ requests' = IF r.sent THEN requests + 1 ELSE requests
          /\ remote' = IF r.stored
                       THEN [remote EXCEPT ![lesson_index] = extracted]
                       ELSE remote
          /\ uploads' = Append(uploads, r.ok)
    /\ lesson_index' = lesson_index + 1
    /\ upc' = "lesson"
    /\ UNCHANGED <<dry_run, extracted>>
    /\ UNCHANGED <<mainVars, leakVars, fileVars, extractVars, jsonVars, genVars>>

\* line 296: the loop is over
UploadDone ==
    /\ upc = "lesson"
    /\ lesson_index > Len(LESSONS)
    /\ upc' = "done"
    /\ UNCHANGED <<dry_run, lesson_index, extracted, remote, requests, uploads>>
    /\ UNCHANGED <<mainVars, leakVars, fileVars, extractVars, jsonVars, genVars>>

NextUpload ==
    \/ LessonNotFound \/ ExtractFailed \/ ExtractedWithNode \/ UploadMainRaises
    \/ Upload \/ UploadDone

SpecUpload == InitUpload /\ [][NextUpload]_vars

(***************************************************************************)
(* english-resources-generate.py: scan_and_generate and its data.json.     *)
(* A run loads the settings, generates the pages and then rewrites         *)
(* data.json when the settings it holds differ from the stored ones.       *)
(***************************************************************************)
MaxRuns == 3

\* The four-key dict the code falls back to (lines 328-347); the icon is a
\* non-ASCII literal in the source and is stood for by its name here.
DEFAULT_SETTINGS ==
    [siteName |-> "English Resources", siteIcon |-> "books", siteColor |-> "#0D9488",
     mainHtmlFile |-> "index.html"]

\* JSON null: what json.load gives for "settings": null, and what
\* existing.get('settings') gives when the key is absent.
JsonNull == [none |-> TRUE]

\* Values a data.json may hold under the key 'settings'.
StoredSettings ==
    { DEFAULT_SETTINGS,
      [DEFAULT_SETTINGS EXCEPT !.siteName = "Mine"],
      [siteColor |-> "#fff"],
      JsonNull }

NotAnObject(k) == [kind |-> k, has_settings |-> FALSE, stored |-> JsonNull, other |-> FALSE]

\* What may be found at data_path: no file, a file open() cannot read, text
\* json.load rejects, a JSON array, or a JSON object with or without the key
\* 'settings' and with or without other keys.
DataJsonFiles ==
    { NotAnObject(k) : k \in {"missing", "unreadable", "invalid", "array"} }
    \cup { [kind |-> "object", has_settings |-> FALSE, stored |-> JsonNull, other |-> o] :
              o \in BOOLEAN }
    \cup { [kind |-> "object", has_settings |-> TRUE, stored |-> s, other |-> o] :
              s \in StoredSettings, o \in BOOLEAN }

\* dict.get('settings', default) on a loaded object (line 328).
get_settings(file, default) == IF file.has_settings THEN file.stored ELSE default

\* Outcome of os.path.exists + open + json.load on data_path (lines 325-327
\* and 418-420): the loaded value or the exception raised.
load_data_json(file) ==
    CASE file.kind = "missing"    -> "absent"
      [] file.kind = "unreadable" -> "OSError"
      [] file.kind = "invalid"    -> "JSONDecodeError"
      [] OTHER                    -> "loaded"

\* generate_main_index subscripts settings['siteName'] and
\* settings['siteIcon'] (lines 91-124): None raises TypeError, a dict
\* without one of the keys raises KeyError.
main_index_raises(s) == ~({"siteName", "siteIcon"} \subseteq DOMAIN s)

needs_write_always(file, used) == TRUE

\* needs_write of lines 416-422 once the file has been loaded or found absent.
needs_write(file, used) ==
    IF load_data_json(file) = "absent" THEN TRUE
    ELSE ~(get_settings(file, JsonNull) = used)

\* json.dump of new_data = {'settings': settings} (lines 414-428), read back.
new_data(used) == [kind |-> "object", has_settings |-> TRUE, stored |-> used, other |-> FALSE]

ThisRun == writes[Len(writes)]

InitGenerate ==
    /\ MainIdle /\ LeakIdle /\ FileIdle /\ ExtractIdle
    /\ ToolIdle("generate")
    /\ gpc = "load"
    /\ data_json \in DataJsonFiles
    /\ settings = JsonNull
    /\ run = 1
    /\ writes = <<[found |-> data_json, left |-> data_json, count |-> 0]>>

\* Lines 322-348: load or create settings.  A JSON value that is not an
\* object has no .get: the AttributeError is not caught and ends the run.
LoadSettings ==
    /\ gpc = "load"
    /\ LET res == load_data_json(data_json) IN
         IF res = "loaded" /\ data_json.kind # "object"
         THEN /\ gpc' = "failed"
              /\ UNCHANGED settings
         ELSE /\ gpc' = "generate"
              /\ settings' = IF res = "loaded"
                             THEN get_settings(data_json, DEFAULT_SETTINGS)
                             ELSE DEFAULT_SETTINGS
    /\ UNCHANGED <<data_json, run, writes>>
    /\ UNCHANGED <<mainVars, leakVars, fileVars, extractVars, jsonVars, uploadVars>>

\* Lines 350-409: the stylesheet, the main index, the folder pages and the
\* sitemap.  An OSError on the stylesheet or the main index is re-raised,
\* and unusable settings raise in generate_main_index: the run ends before
\* data.json is looked at again.
GeneratePages ==
    /\ gpc = "generate"
    /\ \E os_error \in BOOLEAN :
         gpc' = IF os_error \/ main_index_raises(settings) THEN "failed" ELSE "check"
    /\ UNCHANGED <<data_json, settings, run, writes>>
    /\ UNCHANGED <<mainVars, leakVars, fileVars, extractVars, jsonVars, uploadVars>>

\* Lines 411-431: update data.json only if the settings changed.  A failed
\* read is caught and logged; a failed write leaves the file as it was
\* (open failed) or truncated (dump failed).
UpdateDataJson ==
    /\ gpc = "check"
    /\ LET res == load_data_json(data_json) IN
         IF res \in {"OSError", "JSONDecodeError"} \/ ~needs_write(data_json, settings)
         THEN UNCHANGED <<data_json, writes>>
         ELSE /\ data_json' \in {new_data(settings), data_json, NotAnObject("invalid")}
              /\ writes' = [writes EXCEPT ![Len(writes)] =
                               [ThisRun EXCEPT !.count = @ + 1, !.left = data_json']]
    /\ gpc' = "done"
    /\ UNCHANGED <<settings, run>>
    /\ UNCHANGED <<mainVars, leakVars, fileVars, extractVars, jsonVars, uploadVars>>

\* The script is started again (__main__, lines 434-442); data.json is the
\* file the last run left, or another one put in its place in between.
RunAgain ==
    /\ gpc \in {"done", "failed"}
    /\ run < MaxRuns
    /\ \E file \in DataJsonFiles :
         /\ data_json' = file
         /\ writes' = Append(writes, [found |-> file, left |-> file, count |-> 0])
    /\ gpc' = "load"
    /\ run' = run + 1
    /\ settings' = JsonNull
    /\ UNCHANGED <<mainVars, leakVars, fileVars, extractVars, jsonVars, uploadVars>>

NextGenerate == LoadSettings \/ GeneratePages \/ UpdateDataJson \/ RunAgain

SpecGenerate == InitGenerate /\ [][NextGenerate]_vars

(***************************************************************************)
(* Properties.                                                             *)
(***************************************************************************)
\* the number of whitespace-separated tokens of s
TokenCount(s) ==
    Cardinality({i \in 1..Len(s) : ~IsSpace(s[i]) /\ (i = 1 \/ IsSpace(s[i - 1]))})

\* an answer of 4 or more tokens once a leading choice-letter prefix is stripped
FourOrMoreTokens(answer) == TokenCount(StripChoicePrefix(Strip(answer))) >= 4

Answer == Get(question, "answer", <<>>)
Vocab == Get(question, "vocab", <<>>)
Hints == Get(question, "hint", <<>>)
VocabChecked == lpc \in {"vocab", "done"}
HintsChecked == lpc = "done"

\* main() built its list of files (no missing argument, the directory exists)
ListCollected ==
    IF Len(argv) > 0 THEN \A i \in DOMAIN argv : isfile(argv[i])
    ELSE lessons_dir.exists

\* every file of the list was validated and produced no finding
AllFilesClean ==
    \A i \in DOMAIN files : i <= Len(reports) /\ reports[i][2] = <<>>

\* C1 as stated: for any list of files to validate, main() exits with status 0
\* if and only if every validated file produced zero findings.
C1_Original ==
    (pc = "exit" /\ ListCollected) => (exit_status = 0 <=> AllFilesClean)

\* C1, amended: for any non-empty list of files to validate, main() exits with
\* status 0 if and only if every file of the list was validated and produced
\* zero findings of any severity; a single LOW finding in any one file makes
\* the run exit with status 1.
C1_ExitStatus ==
    /\ (pc = "exit" /\ ListCollected /\ files # <<>>)
          => (exit_status = 0 <=> AllFilesClean)
    /\ (pc = "exit" /\ \E i \in DOMAIN reports : \E k \in DOMAIN reports[i][2] :
                           reports[i][2][k].severity = "LOW")
          => exit_status = 1

\* a finished run over two files, one clean and one whose only finding is LOW
C1_Witness ==
    /\ pc = "exit"
    /\ exit_status = 1
    /\ Len(reports) = 2
    /\ reports[1][2] = <<>>
    /\ Len(reports[2][2]) = 1
    /\ reports[2][2][1].severity = "LOW"

\* C2: for a question whose answer is missing or empty, check_vocab_leaks and
\* check_hint_leaks both return no findings, whatever vocab and hints hold.
C2_NoAnswerNoLeak ==
    (Answer = <<>>)
        => /\ VocabChecked => vocab_issues = <<>>
           /\ HintsChecked => hint_issues = <<>>

\* both checks have run on a question that has vocab and hints but no answer
C2_Witness ==
    /\ HintsChecked
    /\ "answer" \notin DOMAIN question
    /\ Vocab # <<>>
    /\ Hints # <<>>

\* C3: for an answer of 4 or more tokens (after stripping a leading
\* choice-letter prefix) check_hint_leaks returns an empty list, for any hints.
C3_SentenceNoHintLeak ==
    (HintsChecked /\ FourOrMoreTokens(Answer)) => hint_issues = <<>>

\* the hint check has run on a 4-token answer whose first hint holds a
\* non-stoplisted word of the answer as a whole word
C3_Witness ==
    /\ HintsChecked
    /\ FourOrMoreTokens(Answer)
    /\ Hints # <<>>
    /\ WordSearch(W_go, Lower(Hints[1]))
    /\ WordSearch(W_go, Lower(Answer))

\* head word of a finding's vocabulary entry, lower-cased, punctuation stripped
PlainHead(word) == Strip(StripPunct(Lower(word)))

\* C4: a vocabulary entry whose head word (lower-cased, punctuation stripped)
\* is a member of COMMON_WORDS never produces a vocab_leak finding.
C4_StoplistedVocabNeverLeaks ==
    VocabChecked =>
        \A k \in DOMAIN vocab_issues :
            PlainHead(vocab_issues[k].detail.word) \notin COMMON_WORDS

\* the vocab check has run on a stoplisted entry ("So." or "the") whose head
\* word occurs as a whole word in a non-stoplisted answer word
C4_Witness ==
    /\ VocabChecked
    /\ \E i \in DOMAIN Vocab :
          /\ Vocab[i].list /\ Len(Vocab[i].items) >= 2
          /\ PlainHead(Vocab[i].items[1]) \in COMMON_WORDS
          /\ \E j \in DOMAIN answer_words :
                /\ answer_words[j] \notin COMMON_WORDS
                /\ WordSearch(PlainHead(Vocab[i].items[1]), answer_words[j])

\* a word: word characters, with hyphens allowed inside
IsOneWord(w) ==
    /\ w # <<>>
    /\ IsWordChar(w[1]) /\ IsWordChar(w[Len(w)])
    /\ \A i \in DOMAIN w : IsWordChar(w[i]) \/ w[i] = "-"

\* the answer is a choice letter, a period, blanks and the one word w
IsChoiceThenWord(answer, w) ==
    /\ Len(answer) >= 3
    /\ answer[1] \in {"a", "b", "c", "d"}
    /\ answer[2] = "."
    /\ \E k \in 2..(Len(answer) - 1) :
          /\ \A j \in 3..k : answer[j] = " "
          /\ w = SubSeq(answer, k + 1, Len(answer))
    /\ IsOneWord(w)

\* the scenario of C5: choice prefix, one non-stoplisted word, and a vocab list
\* of one entry whose head word is that word
C5_Case ==
    /\ "answer" \in DOMAIN question
    /\ Len(Vocab) = 1
    /\ Vocab[1].list
    /\ Len(Vocab[1].items) >= 2
    /\ IsChoiceThenWord(Answer, Vocab[1].items[1])
    /\ Lower(Vocab[1].items[1]) \notin COMMON_WORDS

\* C5: for a short answer made of a choice-letter prefix and one non-stoplisted
\* word, and a vocab list of one entry whose head word equals that word,
\* check_vocab_leaks returns exactly one finding, a HIGH vocab_leak.
C5_ExactlyOneLeak ==
    (VocabChecked /\ C5_Case)
        => /\ Len(vocab_issues) = 1
           /\ vocab_issues[1].type = "vocab_leak"
           /\ vocab_issues[1].severity = "HIGH"

\* scenario A of the spec: answer "b. honest", vocab [["honest", ...]]
C5_Witness ==
    /\ VocabChecked
    /\ C5_Case
    /\ Vocab[1].items[1] = <<"h","o","n","e","s","t">>
    /\ Len(vocab_issues) = 1

WellFormed(entry) == entry.list /\ Len(entry.items) >= 2

\* the vocabulary word and the answer word each vocab_leak finding names
LeakPairs(issues) ==
    [k \in DOMAIN issues |-> <<issues[k].detail.word, issues[k].detail.aw>>]

AllHighVocabLeaks(issues) ==
    \A k \in DOMAIN issues :
        issues[k].type = "vocab_leak" /\ issues[k].severity = "HIGH"

\* one pair per (non-stoplisted entry, answer word) that Match accepts, in the
\* order of the vocab list and of the answer words
ExpectedPairs(Match(_, _)) ==
    ConcatIdx(LAMBDA i :
        IF PlainHead(Vocab[i].items[1]) \in COMMON_WORDS THEN <<>>
        ELSE ConcatIdx(LAMBDA j :
                 IF answer_words[j] \notin COMMON_WORDS
                    /\ Match(Vocab[i].items[1], answer_words[j])
                 THEN <<<<Vocab[i].items[1], answer_words[j]>>>>
                 ELSE <<>>,
                 Len(answer_words)),
        Len(Vocab))

\* a short answer checked against well-formed vocabulary entries
C6_Case ==
    /\ VocabChecked
    /\ Answer # <<>>
    /\ ~FourOrMoreTokens(Answer)
    /\ \A i \in DOMAIN Vocab : WellFormed(Vocab[i])

\* C6 as stated, for vocabulary words that keep a word character: a finding
\* exactly when the answer word is not stoplisted and the punctuation-stripped
\* vocabulary word and the answer word contain one another as whole words.
C6_Original ==
    (C6_Case /\ \A i \in DOMAIN Vocab : PlainHead(Vocab[i].items[1]) # <<>>)
        => LeakPairs(vocab_issues)
              = ExpectedPairs(LAMBDA head, aw :
                    \/ WordSearch(aw, PlainHead(head))
                    \/ WordSearch(PlainHead(head), aw))

\* C6, amended: for a short answer, a non-stoplisted vocabulary entry and an
\* answer word produce a HIGH vocab_leak exactly when the answer word is not
\* stoplisted and either the answer word occurs as a whole word in the
\* lower-cased vocabulary word with its punctuation kept, or the
\* punctuation-stripped vocabulary word occurs as a whole word in the answer
\* word (a stripped word that is empty occurs at every word boundary); no
\* finding is produced otherwise.
C6_ShortAnswerMatch ==
    C6_Case
        => /\ LeakPairs(vocab_issues)
                 = ExpectedPairs(LAMBDA head, aw :
                       \/ WordSearch(aw, Lower(head))
                       \/ WordSearch(PlainHead(head), aw))
           /\ AllHighVocabLeaks(vocab_issues)

\* a short answer with findings of both directions
C6_Witness ==
    /\ C6_Case
    /\ \E k \in DOMAIN vocab_issues : vocab_issues[k].detail.msg = "contains answer"
    /\ \E k \in DOMAIN vocab_issues : vocab_issues[k].detail.msg = "matches answer"

\* the function words the spec lists
SpecFunctionWords == {
    <<"s","o">>, <<"n","o","t">>, <<"i","n">>, <<"b","y">>, <<"a","s">>,
    <<"o","f">>, <<"s","u","c","h">>, <<"b","o","t","h">>,
    <<"e","i","t","h","e","r">>, <<"n","e","i","t","h","e","r">>,
    <<"n","o","r">>, <<"w","h","e","t","h","e","r">>,
    <<"u","n","t","i","l">>, <<"u","n","l","e","s","s">>,
    <<"o","n","c","e">>, <<"t","h","a","t">>
}

PhraseTokens(word) == Range(SplitWS(PlainHead(word)))

\* a sentence answer checked against one well-formed vocabulary entry
C7_Case ==
    /\ VocabChecked
    /\ FourOrMoreTokens(Answer)
    /\ Len(Vocab) = 1
    /\ WellFormed(Vocab[1])

C8_Original ==
    (VocabChecked /\ FourOrMoreTokens(Answer))
        => \A k \in DOMAIN vocab_issues :
               PhraseTokens(vocab_issues[k].detail.word) \cap SpecFunctionWords # {}

\* C8, amended: for a sentence answer, a multi-word vocabulary phrase is
\* flagged only if it contains at least one token from the set {so, not, no,
\* in, by, as, of, such, both, either, neither, nor, whether, until, unless,
\* once, that}; a phrase with no token from that set is never flagged.
C8_FunctionWordNeeded ==
    (VocabChecked /\ FourOrMoreTokens(Answer))
        => \A k \in DOMAIN vocab_issues :
               /\ TokenCount(PlainHead(vocab_issues[k].detail.word)) >= 2
               /\ PhraseTokens(vocab_issues[k].detail.word)
                      \cap (SpecFunctionWords \cup {<<"n","o">>}) # {}

\* a sentence answer that holds the content phrase "go go", and no finding
C8_Witness ==
    /\ VocabChecked
    /\ FourOrMoreTokens(Answer)
    /\ Len(Vocab) = 1
    /\ WellFormed(Vocab[1])
    /\ Vocab[1].items[1] = <<"g","o"," ","g","o">>
    /\ Contains(<<"g","o"," ","g","o">>, Lower(Answer))
    /\ vocab_issues = <<>>

\* what each hint_leak finding names: hint number, answer word, quoted text
HintLeaks(issues) ==
    [k \in DOMAIN issues |->
        <<issues[k].type, issues[k].severity, issues[k].detail.n,
          issues[k].detail.aw, issues[k].detail.quote>>]

\* C9: for a short answer, each hint is checked against every derived answer
\* word (for an arrow answer only the right-hand side; comma parts plus the
\* whole phrase; stoplisted words excluded): a multi-word answer word matches
\* by substring in the lower-cased hint, a single word only as a whole word,
\* and every match yields a HIGH hint_leak naming the 1-based hint index and
\* the first 60 characters of the hint.
C9_HintsAgainstDerivedWords ==
    (HintsChecked /\ Answer # <<>> /\ ~FourOrMoreTokens(Answer))
        => HintLeaks(hint_issues)
              = ConcatIdx(LAMBDA i :
                    ConcatIdx(LAMBDA j :
                        IF answer_words[j] \notin COMMON_WORDS
                           /\ (IF " " \in Range(answer_words[j])
                               THEN Contains(answer_words[j], Lower(Hints[i]))
                               ELSE WordSearch(answer_words[j], Lower(Hints[i])))
                        THEN <<<<"hint_leak", "HIGH", i, answer_words[j],
                                 SubSeq(Hints[i], 1, Min(60, Len(Hints[i])))>>>>
                        ELSE <<>>,
                        Len(answer_words)),
                    Len(Hints))

\* the text right of the last arrow of s (s itself when it has no arrow)
AfterLastArrow(s) ==
    LET arrows == {i \in DOMAIN s : s[i] = ARROW} IN
    IF arrows = {} THEN s
    ELSE SubSeq(s, (CHOOSE i \in arrows : \A j \in arrows : j <= i) + 1, Len(s))

\* the phrase extract_answer_words works on: prefix stripped, right of the arrow
AnswerPhrase(answer) == Strip(AfterLastArrow(StripChoicePrefix(Strip(answer))))

\* the words C10 describes; appendEmpty says whether an empty phrase is added
DescribedWords(answer, appendEmpty) ==
    LET phrase == AnswerPhrase(answer)
        parts == CommaWords(phrase)
    IN IF FourOrMoreTokens(phrase) THEN <<Lower(phrase)>>
       ELSE IF (appendEmpty \/ phrase # <<>>) /\ ~InList(Lower(phrase), parts)
            THEN Append(parts, Lower(phrase))
            ELSE parts

\* C10 as stated: the parts, followed by the whole lower-cased phrase when it
\* is not already one of the parts.
C10_Original ==
    lpc # "start" => answer_words = DescribedWords(Answer, TRUE)

\* C10, amended: extract_answer_words returns, after stripping a leading
\* choice-letter prefix: for an answer containing an arrow, words derived only
\* from the text right of the last arrow; for a short answer, each non-empty
\* comma-separated part trimmed and lower-cased, followed by the whole
\* lower-cased phrase when it is not empty and not already one of the parts;
\* for a sentence answer (4 or more tokens, a choice-letter prefix at the head
\* of the phrase not counted), exactly one element equal to the whole
\* lower-cased phrase.
C10_AnswerWords ==
    lpc # "start" => answer_words = DescribedWords(Answer, FALSE)

\* an arrow answer whose right-hand side has two comma parts
C10_Witness ==
    /\ lpc # "start"
    /\ ARROW \in Range(Answer)
    /\ Len(answer_words) = 3
    /\ \E i \in DOMAIN Answer : Answer[i] = ","

(***************************************************************************)
(* Properties of validate_file and of main().                              *)
(***************************************************************************)
FileDone == fpc = "done"

Found == returned[2]

OfType(found, type) == SelectSeq(found, LAMBDA i : i.type = type)

\* s with every character outside square brackets blanked
InsideBrackets(s) ==
    [i \in DOMAIN s |->
        IF Cardinality({j \in 1..i : s[j] = "["})
               > Cardinality({j \in 1..i : s[j] = "]"})
        THEN s[i] ELSE " "]

\* the section indices the values of a categoryMap text reference: the numbers
\* inside its arrays
MapValues(text) == DigitRuns(InsideBrackets(text))

\* C11: for a document with N sections and a declared categoryMap, when the
\* map's values reference exactly {0..N-1} validate_file emits no
\* categoryMap_mismatch finding; when an index below N is missing or an index
\* of N or more is referenced, it emits exactly one HIGH categoryMap_mismatch
\* finding whose detail lists the missing and the extra indices.
C11_CategoryMapChecked ==
    (FileDone /\ Sections # <<>> /\ document.content.categoryMap.declared)
        => LET values == MapValues(document.content.categoryMap.text)
               expected == 0..(Len(Sections) - 1)
               mismatches == OfType(Found, "categoryMap_mismatch")
           IN IF values = expected THEN mismatches = <<>>
              ELSE /\ Len(mismatches) = 1
                   /\ mismatches[1].severity = "HIGH"
                   /\ mismatches[1].detail.missing = expected \ values
                   /\ mismatches[1].detail.extra = values \ expected

\* validate_file went through every question and returned its findings
AllChecked == FileDone /\ Len(returned) = 3

Questions == flat_questions(Sections)

HintsOf(q) == Get(q, "hint", <<>>)

\* severity and stated length of each hint_count finding, in order
HintCounts(found) ==
    LET hc == OfType(found, "hint_count")
    IN [k \in DOMAIN hc |-> <<hc[k].severity, hc[k].detail.n>>]

\* C12: check_hint_count returns no finding for a hint list of length 0 or 3
\* (or an absent hint field) and exactly one LOW hint_count finding, stating
\* the observed length, for every other length.
C12_HintCount ==
    AllChecked =>
        HintCounts(Found)
            = ConcatIdx(LAMBDA k :
                  IF Len(HintsOf(Questions[k].q)) \in {0, 3} THEN <<>>
                  ELSE <<<<"LOW", Len(HintsOf(Questions[k].q))>>>>,
                  Len(Questions))

\* a validated document whose one question has four hints, and its finding
C12_Witness ==
    /\ AllChecked
    /\ Len(Questions) = 1
    /\ Len(HintsOf(Questions[1].q)) = 4
    /\ HintCounts(Found) = <<<<"LOW", 4>>>>

\* what validate_file finds in the same text when the file is small
FoundWhenSmall ==
    validate_file_on(document.name, SmallSize, document.content)[2]

\* C13: validate_file emits exactly one MEDIUM file_size finding when the file
\* size is above 204800 bytes and none when it is 204800 or less; after a
\* file_size finding, extraction, the categoryMap check and all per-question
\* checks still run and their findings are appended.
C13_FileSize ==
    FileDone =>
        IF document.size > 204800
        THEN /\ Len(OfType(Found, "file_size")) = 1
             /\ Found[1].type = "file_size"
             /\ Found[1].severity = "MEDIUM"
             /\ Tail(Found) = FoundWhenSmall
        ELSE /\ OfType(Found, "file_size") = <<>>
             /\ Found = FoundWhenSmall

\* a file of 204801 bytes with a categoryMap finding and question findings
\* after its file_size finding
C13_Witness ==
    /\ AllChecked
    /\ document.size = 204801
    /\ Found[1].type = "file_size"
    /\ OfType(Found, "categoryMap_mismatch") # <<>>
    /\ OfType(Found, "vocab_leak") # <<>>
    /\ OfType(Found, "hint_count") # <<>>

\* a field that is absent, empty or whitespace only
AbsentOrBlank(q, field) ==
    field \notin DOMAIN q \/ \A i \in DOMAIN q[field] : IsSpace(q[field][i])

\* the section title holds a translation-optional marker
HasMarker(title) == \E kw \in TranslationOptionalKeywords : Contains(kw, title)

\* severity and field of each missing_field finding, in order
MissingFields(found) ==
    LET mf == OfType(found, "missing_field")
    IN [k \in DOMAIN mf |-> <<mf[k].severity, mf[k].detail.msg>>]

ExpectedMissing(entry) ==
    ConcatIdx(LAMBDA f :
        LET field == <<"text", "answer", "translation">>[f] IN
        IF AbsentOrBlank(entry.q, field)
        THEN <<<<IF field = "translation" /\ HasMarker(entry.title)
                 THEN "LOW" ELSE "MEDIUM", field>>>>
        ELSE <<>>,
        3)

\* C14: check_required_fields emits one missing_field finding for each of
\* text, answer and translation that is absent or blank; the finding is
\* MEDIUM, except that a missing translation is LOW when the section title
\* contains a translation-optional marker, while a missing text or answer
\* stays MEDIUM in such sections.
C14_RequiredFields ==
    AllChecked =>
        MissingFields(Found)
            = ConcatIdx(LAMBDA k : ExpectedMissing(Questions[k]), Len(Questions))

\* a question without text and with a blank translation, in a section whose
\* title holds a marker
C14_Witness ==
    /\ AllChecked
    /\ Len(Questions) = 1
    /\ HasMarker(Questions[1].title)
    /\ "text" \notin DOMAIN Questions[1].q
    /\ "translation" \in DOMAIN Questions[1].q
    /\ MissingFields(Found) = <<<<"MEDIUM", "text">>, <<"LOW", "translation">>>>

\* type, severity and message of each finding that is not a file_size finding
Fatal(found) ==
    LET rest == SelectSeq(found, LAMBDA i : i.type # "file_size")
    IN [k \in DOMAIN rest |-> <<rest[k].type, rest[k].severity, rest[k].detail.msg>>]

\* C15: when the grammarData declaration is absent, or the normalized literal
\* fails to parse, or the parsed data has zero sections, validate_file adds
\* exactly one HIGH finding for that condition (carrying the parser's message
\* for a parse failure) and returns at once: no categoryMap finding and no
\* per-question finding is produced for that file.
C15_FatalForFile ==
    LET content == document.content IN
    /\ (FileDone /\ content.grammarData = "absent")
          => /\ Fatal(Found)
                   = <<<<"parse_error", "HIGH", "Could not find grammarData block">>>>
             /\ Len(returned) = 2
    /\ (FileDone /\ content.grammarData = "unparseable")
          => /\ Fatal(Found) = <<<<"parse_error", "HIGH", "JSON parse error">>>>
             /\ Len(returned) = 2
    /\ (FileDone /\ content.grammarData = "parsed" /\ content.data.sections = <<>>)
          => /\ Fatal(Found)
                   = <<<<"no_sections", "HIGH", "grammarData has no sections">>>>
             /\ Len(returned) = 2
    /\ (content.grammarData # "parsed" \/ content.data.sections = <<>>)
          => fpc \in {"size", "open", "raised", "done"}

\* a document without sections and with a categoryMap that names section 1:
\* validate_file returned the one no_sections finding
C15_Witness ==
    /\ FileDone
    /\ document.content.grammarData = "parsed"
    /\ document.content.data.sections = <<>>
    /\ document.content.categoryMap.declared
    /\ DigitRuns(cat_text(document.content.categoryMap.text)) = {1}
    /\ Len(Found) = 1

\* C16: a failure while processing one file (missing data declaration,
\* unparseable literal, an unreadable file, a question check that cannot
\* evaluate its input) is confined to that file: every later file of the
\* run's list is still validated and reported, and the run is never aborted
\* by one file's failure.
C16_FailureConfined ==
    (pc = "exit" /\ ListCollected /\ files # <<>>) => Len(reports) = Len(files)

\* paths were given as arguments and one of them is not a file
ArgMissing == \E i \in DOMAIN argv : argv[i] = MissingPath

\* C17: when file paths are given as positional arguments and any one of them
\* is not an existing file, main() exits with status 1 before validate_file is
\* called on any file, including the existing files named earlier in the list.
C17_MissingArgAborts ==
    ArgMissing =>
        /\ pc \in {"args", "exit"}
        /\ reports = <<>>
        /\ done = 0
        /\ pc = "exit" => exit_status = 1

\* the run has ended on a missing second argument after an existing first one
C17_Witness ==
    /\ pc = "exit"
    /\ Len(argv) = 2
    /\ argv[1] \in DOMAIN Disk
    /\ argv[2] = MissingPath
    /\ exit_status = 1
    /\ reports = <<>>

\* C18: a finding is never mutated after it has been created: once a check
\* has appended a finding to its list, none of its fields changes during the
\* rest of the validation pass.
C18_FindingsImmutable ==
    [][/\ \A k \in DOMAIN file_issues :
             k \in DOMAIN file_issues' /\ file_issues'[k] = file_issues[k]
       /\ \A k \in DOMAIN local \cap DOMAIN local' : local'[k] = local[k]]_vars

\* C19: the validation pass is read-only on its inputs: no check changes the
\* parsed lesson data or the source document, so the lesson data after
\* validate_file equals the lesson data produced by extraction.
C19_ReadOnly ==
    [][/\ document' = document
       /\ fpc \notin {"size", "open"} => data' = data
       /\ fpc' = "done" => data' = parse_grammar_data(document.content)[1]]_vars

\* every check has run on a two-section document and reported findings of
\* each kind; the lesson data is the data of the document
C19_Witness ==
    /\ AllChecked
    /\ Len(data.sections) = 2
    /\ data = document.content.data
    /\ OfType(Found, "file_size") # <<>>
    /\ OfType(Found, "categoryMap_mismatch") # <<>>
    /\ OfType(Found, "vocab_leak") # <<>>
    /\ OfType(Found, "missing_field") # <<>>
    /\ OfType(Found, "hint_count") # <<>>

(***************************************************************************)
(* C20: extraction of the grammarData literal                              *)
(***************************************************************************)
\* index of the brace that balances the brace opened before index i, reading
\* the text as JavaScript: inside a string (quote # "") a backslash escapes
\* the next character and only the same quote ends the string; 0 when the
\* text ends first or a backslash stands outside a string
RECURSIVE Balancing(_, _, _, _)
Balancing(s, i, depth, quote) ==
    IF i > Len(s) THEN 0
    ELSE IF quote # ""
         THEN IF s[i] = BACKSLASH THEN Balancing(s, i + 2, depth, quote)
              ELSE IF s[i] = quote THEN Balancing(s, i + 1, depth, "")
              ELSE Balancing(s, i + 1, depth, quote)
    ELSE IF s[i] = "{" THEN Balancing(s, i + 1, depth + 1, "")
    ELSE IF s[i] = "}"
         THEN IF depth = 1 THEN i ELSE Balancing(s, i + 1, depth - 1, "")
    ELSE IF s[i] \in {DQUOTE, SQUOTE, BACKTICK}
         THEN Balancing(s, i + 1, depth, s[i])
    ELSE IF s[i] = BACKSLASH THEN 0
    ELSE Balancing(s, i + 1, depth, "")

OpeningBrace(html) == declaration(html)[2]

BalancingBrace(html) == Balancing(html, OpeningBrace(html) + 1, 1, "")

\* the literal is the whole statement: the brace that balances the opening
\* one is the brace of the line holding "};" that ends the declaration
WellFormedLiteral(html) ==
    /\ declaration(html) # <<>>
    /\ BalancingBrace(html) # 0
    /\ At(html, BalancingBrace(html) - 1, CLOSING)

BalancedSpan(html) == SubSeq(html, OpeningBrace(html), BalancingBrace(html))

\* C20: for a lesson file whose grammarData literal is well formed, each
\* extractor returns the text from the literal's opening brace to the brace
\* that balances it, whatever braces and "};" lines the strings of the
\* literal hold.
C20_BalancedExtraction ==
    (xpc = "done" /\ WellFormedLiteral(html_content))
        => /\ raw = BalancedSpan(html_content)
           /\ js_obj = BalancedSpan(html_content)

(***************************************************************************)
(* C21, C22: normalization of the literal                                  *)
(***************************************************************************)
\* the contents of the double-quoted strings of s from index i on, in order,
\* reading s as JavaScript: open is 0 outside a string and the index of the
\* first character of the string inside one; comments count outside strings
\* only, and a backslash inside a string escapes the next character
RECURSIVE StringLiterals(_, _, _)
StringLiterals(s, i, open) ==
    LET closes == {j \in (i + 2)..Len(s) : At(s, j, <<"*", "/">>)}
    IN IF i > Len(s) THEN <<>>
       ELSE IF open # 0
            THEN IF s[i] = BACKSLASH THEN StringLiterals(s, i + 2, open)
                 ELSE IF s[i] = DQUOTE
                      THEN <<SubSeq(s, open, i - 1)>> \o StringLiterals(s, i + 1, 0)
                 ELSE StringLiterals(s, i + 1, open)
       ELSE IF At(s, i, <<"/", "/">>) THEN StringLiterals(s, LineEnd(s, i + 2), 0)
       ELSE IF At(s, i, <<"/", "*">>)
            THEN IF closes = {} THEN <<>>
                 ELSE StringLiterals(s,
                          (CHOOSE j \in closes : \A k \in closes : j <= k) + 2, 0)
       ELSE IF s[i] = DQUOTE THEN StringLiterals(s, i + 1, i + 1)
       ELSE StringLiterals(s, i + 1, 0)

\* a occurs in b as a subsequence
RECURSIVE IsSubsequence(_, _)
IsSubsequence(a, b) ==
    IF a = <<>> THEN TRUE
    ELSE IF b = <<>> THEN FALSE
    ELSE IF a[1] = b[1] THEN IsSubsequence(Tail(a), Tail(b))
    ELSE IsSubsequence(a, Tail(b))

\* C21: every string of the literal, whatever "//" or "/*" it holds, is a
\* string of the normalized text, unchanged and in the same order: comments
\* are removed outside strings only.
C21_CommentsOutsideStringsOnly ==
    npc = "done"
        => IsSubsequence(StringLiterals(js_text, 1, 0), StringLiterals(json_text, 1, 0))

\* s with the contents of its double-quoted strings taken out
RECURSIVE Skeleton(_, _, _)
Skeleton(s, i, inside) ==
    IF i > Len(s) THEN <<>>
    ELSE IF inside
         THEN IF s[i] = BACKSLASH THEN Skeleton(s, i + 2, TRUE)
              ELSE IF s[i] = DQUOTE THEN <<DQUOTE>> \o Skeleton(s, i + 1, FALSE)
              ELSE Skeleton(s, i + 1, TRUE)
    ELSE <<s[i]>> \o Skeleton(s, i + 1, s[i] = DQUOTE)

\* the literal has no comment, no bare key and no trailing comma
PlainLiteral(s) ==
    LET sk == Skeleton(s, 1, FALSE)
    IN \A i \in 1..Len(sk) :
          /\ ~At(sk, i, <<"/", "/">>)
          /\ ~At(sk, i, <<"/", "*">>)
          /\ IsWordChar(sk[i])
                => ~(SkipSpace(sk, i + 1) <= Len(sk) /\ sk[SkipSpace(sk, i + 1)] = ":")
          /\ sk[i] = ","
                => ~(SkipSpace(sk, i + 1) <= Len(sk)
                     /\ sk[SkipSpace(sk, i + 1)] \in {"}", "]"})

\* C22: normalizing a literal that has no comments, no bare keys and no
\* trailing commas returns it unchanged, whatever its string values hold.
C22_PlainLiteralUnchanged ==
    (npc = "done" /\ PlainLiteral(js_text)) => json_text = js_text

(***************************************************************************)
(* C23: the shape of validate_file's result                                *)
(***************************************************************************)
HasMetadata == Len(returned) = 3

MetadataKeys == {"sections", "questions", "size_kb"}

\* C23 as stated: a result is (filename, []) or (filename, findings,
\* metadata); one without metadata has no findings.
C23_Original ==
    FileDone => \/ (Len(returned) = 2 /\ Found = <<>>)
                \/ (HasMetadata /\ DOMAIN returned[3] = MetadataKeys)

\* C23: a result of validate_file is either (filename, findings) without
\* metadata, and then the findings are not empty and end with the HIGH
\* parse_error or no_sections finding, or (filename, findings, metadata) with
\* metadata {sections, questions, size_kb}, and then the findings may be empty.
C23_ResultShapes ==
    FileDone =>
        \/ /\ Len(returned) = 2
           /\ Found # <<>>
           /\ Found[Len(Found)].type \in {"parse_error", "no_sections"}
           /\ Found[Len(Found)].severity = "HIGH"
        \/ /\ HasMetadata
           /\ DOMAIN returned[3] = MetadataKeys
           /\ \A k \in DOMAIN Found :
                 Found[k].type \notin {"parse_error", "no_sections"}

C23_Witness ==
    FileDone /\ ~HasMetadata /\ Len(Found) = 2 /\ Found[2].type = "parse_error"


(***************************************************************************)
(* C24: validation run twice on the same file                              *)
(***************************************************************************)
SecondRunDone == FileDone /\ reports # <<>>

C25_DryRunSendsNothing ==
    [][dry_run => /\ requests' = requests
                  /\ remote' = remote
                  /\ \A k \in DOMAIN uploads' : uploads'[k]]_vars

C25_Witness ==
    /\ dry_run
    /\ upc = "done"
    /\ Len(uploads) = Len(LESSONS)
    /\ \E id \in DOMAIN LESSONS : remote[id] # <<>>

(***************************************************************************)
(* C26, C27, C28: the vocabulary check                                     *)
(***************************************************************************)
\* a one-word head of a well-formed entry that equals the corrected answer
EqualsCorrection(entry) ==
    /\ WellFormed(entry)
    /\ IsOneWord(entry.items[1])
    /\ Lower(entry.items[1]) = Lower(AnswerPhrase(Answer))
    /\ Lower(entry.items[1]) \notin COMMON_WORDS

\* C26: check_vocab_leaks classifies the answer (line 146) as
\* extract_answer_words classified it when deriving the words (line 117); so
\* for an arrow-style correction with a short right-hand side, a one-word
\* vocabulary entry equal to that side is flagged.
C26_SameClassification ==
    (VocabChecked /\ ~Falsy(Answer) /\ ~Falsy(Vocab)) =>
        /\ is_sentence_answer(Answer) = is_sentence_answer(AnswerPhrase(Answer))
        /\ (ARROW \in Range(Answer) /\ ~is_sentence_answer(AnswerPhrase(Answer)))
              => \A i \in DOMAIN Vocab :
                    EqualsCorrection(Vocab[i])
                        => \E k \in DOMAIN vocab_issues :
                              vocab_issues[k].detail.word = Vocab[i].items[1]

\* C27 as stated: every word of the function-word set is a stoplisted word.
C27_Original == VocabChecked => \A w \in function_words : w \in COMMON_WORDS

StoplistedFunctionWords ==
    {<<"s","o">>, <<"n","o","t">>, <<"n","o">>, <<"i","n">>, <<"b","y">>,
     <<"a","s">>, <<"o","f">>, <<"t","h","a","t">>}

OtherFunctionWords ==
    {<<"s","u","c","h">>, <<"b","o","t","h">>, <<"e","i","t","h","e","r">>,
     <<"n","e","i","t","h","e","r">>, <<"n","o","r">>,
     <<"w","h","e","t","h","e","r">>, <<"u","n","t","i","l">>,
     <<"u","n","l","e","s","s">>, <<"o","n","c","e">>}

\* a well-formed multi-word entry with a function word that is not stoplisted,
\* whose phrase occurs in a derived answer word
OtherFunctionWordPhrase(entry) ==
    /\ WellFormed(entry)
    /\ TokenCount(PlainHead(entry.items[1])) >= 2
    /\ PhraseTokens(entry.items[1]) \cap OtherFunctionWords # {}
    /\ \E j \in DOMAIN answer_words :
          answer_words[j] # <<>> /\ Contains(PlainHead(entry.items[1]), answer_words[j])

\* C27: the function-word set overlaps the stoplist without being a subset of
\* it: so, not, no, in, by, as, of, that are stoplisted; such, both, either,
\* neither, nor, whether, until, unless, once are not, and in a sentence-answer
\* check a multi-word phrase holding one of these is flagged all the same.
C27_FunctionWordSet ==
    VocabChecked =>
        /\ function_words \cap COMMON_WORDS = StoplistedFunctionWords
        /\ function_words \ COMMON_WORDS = OtherFunctionWords
        /\ \A i \in DOMAIN Vocab :
              (is_sentence_answer(Answer) /\ OtherFunctionWordPhrase(Vocab[i]))
                  => \E k \in DOMAIN vocab_issues :
                        vocab_issues[k].detail.word = Vocab[i].items[1]

C27_Witness ==
    /\ VocabChecked
    /\ is_sentence_answer(Answer)
    /\ Len(Vocab) = 1
    /\ OtherFunctionWordPhrase(Vocab[1])
    /\ Len(vocab_issues) = 1

\* C28: for a short answer, an entry whose head word is empty once its
\* punctuation is stripped is flagged only where the answer word occurs as a
\* whole word in the head word itself; the empty word matches no answer word.
C28_EmptyWordNeverMatches ==
    (VocabChecked /\ ~is_sentence_answer(Answer)) =>
        \A k \in DOMAIN vocab_issues :
            PlainHead(vocab_issues[k].detail.word) = <<>>
                => /\ vocab_issues[k].detail.msg = "contains answer"
                   /\ WordSearch(vocab_issues[k].detail.aw,
                                 Lower(vocab_issues[k].detail.word))

(***************************************************************************)
(* C29: the brace scan of upload-answers.py                                *)
(***************************************************************************)
\* C29: whenever the declaration pattern matches, the scan of
\* extract_grammar_data starts at the opening brace of the literal, stops at
\* an index inside the text, and the span handed to the JSON parser begins
\* with that brace.
C29_ScanFromOpeningBrace ==
    (xpc = "done" /\ declaration(html_content) # <<>>) =>
        LET start == declaration(html_content)[1] + DECL_LEN IN
        /\ start = OpeningBrace(html_content)
        /\ scan(html_content, start, 0) <= Len(html_content)
        /\ js_obj # <<>>
        /\ js_obj[1] = "{"

\* data.json holds valid settings: a JSON object whose 'settings' the
\* generator can use.
ValidSettings(file) ==
    /\ file.kind = "object"
    /\ file.has_settings
    /\ ~main_index_raises(file.stored)

\* C30: in the index generator, data.json is written only when its stored
\* settings differ from the settings in use: a run writes only if the file
\* it found was absent or held other settings than the run used, and after
\* a run that ended with valid settings in data.json, a second run with no
\* change in between performs no write to data.json.
C30_WriteOnlyOnChange ==
    /\ ThisRun.count > 0 =>
          \/ ThisRun.found.kind = "missing"
          \/ get_settings(ThisRun.found, JsonNull) # settings
    /\ \A r \in 2..Len(writes) :
          (ValidSettings(writes[r - 1].left) /\ writes[r].found = writes[r - 1].left)
              => writes[r].count = 0

\* A second run has finished: the first run wrote valid settings, nothing
\* changed in between, and the second run compared them and wrote nothing.
C30_Witness ==
    /\ run = 2
    /\ gpc = "done"
    /\ writes[1].count = 1
    /\ ValidSettings(writes[1].left)
    /\ writes[2].found = writes[1].left
    /\ writes[2].count = 0
====
